---- MODULE Spec2Model ----
(***************************************************************************)
(* send_it_to_tty2rpi: the window-title sender (files_pc/tty2rpi_sender.py *)
(* and its older copy tty2rpi_sender.py) and the MemCard Pro device sender *)
(* (files_rpi/home/tty2rpi/tty2rpi_mcp_sender.py and its PC copy).         *)
(*                                                                         *)
(* Python values: a str is a TLA+ string; None is <<>> and a present value *)
(* v is <<v>>; a dict is a function on its key set (tracked_windows, whose *)
(* keys() order the main loop iterates, is a sequence of [k, v] items in   *)
(* insertion order).                                                       *)
(***************************************************************************)
EXTENDS Integers, Sequences, FiniteSets, TLC

None == <<>>
Some(v) == <<v>>

\* ------------------------------------------------------------ str methods

Char(s, i) == SubSeq(s, i, i)

UPPERCASE == "ABCDEFGHIJKLMNOPQRSTUVWXYZ"
LOWERCASE == "abcdefghijklmnopqrstuvwxyz"
WHITESPACE == {" ", "\t", "\n"}

SetMin(S) == CHOOSE x \in S : \A y \in S : x <= y

\* str.lower() of one character
LowerChar(c) ==
    IF \E i \in 1..26 : Char(UPPERCASE, i) = c
    THEN Char(LOWERCASE, CHOOSE i \in 1..26 : Char(UPPERCASE, i) = c)
    ELSE c

RECURSIVE StrLower(_)
StrLower(s) == IF s = "" THEN "" ELSE LowerChar(Head(s)) \o StrLower(Tail(s))

\* str.upper()
UpperChar(c) ==
    IF \E i \in 1..26 : Char(LOWERCASE, i) = c
    THEN Char(UPPERCASE, CHOOSE i \in 1..26 : Char(LOWERCASE, i) = c)
    ELSE c

RECURSIVE StrUpper(_)
StrUpper(s) == IF s = "" THEN "" ELSE UpperChar(Head(s)) \o StrUpper(Tail(s))

RECURSIVE LStrip(_)
LStrip(s) == IF s # "" /\ Head(s) \in WHITESPACE THEN LStrip(Tail(s)) ELSE s

RECURSIVE RStrip(_)
RStrip(s) ==
    IF s # "" /\ Char(s, Len(s)) \in WHITESPACE
    THEN RStrip(SubSeq(s, 1, Len(s) - 1))
    ELSE s

\* str.strip()
StrStrip(s) == RStrip(LStrip(s))

\* str.startswith(p)
StartsWith(s, p) == Len(s) >= Len(p) /\ SubSeq(s, 1, Len(p)) = p

\* str.find(sub, start): the lowest 0-based index >= start where sub occurs,
\* or -1. A negative start counts from the end (find("]", -1) looks at the
\* last character only).
PyFind(s, sub, start) ==
    LET st == IF start < 0
              THEN (IF Len(s) + start < 0 THEN 0 ELSE Len(s) + start)
              ELSE start
        at == {i \in st..(Len(s) - Len(sub)) : SubSeq(s, i + 1, i + Len(sub)) = sub}
    IN  IF at = {} THEN -1 ELSE SetMin(at)

\* sub in s
Contains(s, sub) == PyFind(s, sub, 0) # -1

\* s[a:b] and s[a:] for 0 <= a
Slice(s, a, b) == SubSeq(s, a + 1, IF b > Len(s) THEN Len(s) ELSE b)
SliceFrom(s, a) == SubSeq(s, a + 1, Len(s))

\* ------------------------------------------------------------ dict methods

\* d.get(k)
DictGet(d, k) == IF k \in DOMAIN d THEN Some(d[k]) ELSE None
\* d[k] = v
DictSet(d, k, v) == [x \in DOMAIN d \cup {k} |-> IF x = k THEN v ELSE d[x]]
\* d.pop(k, None)
DictPop(d, k) == [x \in DOMAIN d \ {k} |-> d[x]]

\* The same for a dict whose insertion order is read (keys()).
ODKeys(od) == [i \in 1..Len(od) |-> od[i].k]
ODHas(od, k) == \E i \in 1..Len(od) : od[i].k = k
ODGet(od, k) ==
    IF ODHas(od, k)
    THEN Some(od[CHOOSE i \in 1..Len(od) : od[i].k = k].v)
    ELSE None
ODSet(od, k, v) ==
    IF ODHas(od, k)
    THEN [i \in 1..Len(od) |-> IF od[i].k = k THEN [k |-> k, v |-> v] ELSE od[i]]
    ELSE Append(od, [k |-> k, v |-> v])
ODPop(od, k) == SelectSeq(od, LAMBDA e : e.k # k)

\* ------------------------------------------------------------ window sender: constants

CMDCOR_DATA == "CMDCOR§PARAM§"

Emulators == {"mame", "flycast", "duckstation", "teknoparrot", "pcsx2", "dolphin"}

PROCESS_TO_EMU ==
    [p \in {"mame.exe", "flycast.exe", "duckstation-qt-x64-releaseltcg.exe",
            "teknoparrotui.exe", "pcsx2.exe", "pcsx2-qt.exe",
            "pcsx2-qtx64-avx2.exe", "dolphin.exe", "dolphinqt.exe",
            "dolphinqt2.exe"} |->
        CASE p = "mame.exe" -> "mame"
          [] p = "flycast.exe" -> "flycast"
          [] p = "duckstation-qt-x64-releaseltcg.exe" -> "duckstation"
          [] p = "teknoparrotui.exe" -> "teknoparrot"
          [] p \in {"pcsx2.exe", "pcsx2-qt.exe", "pcsx2-qtx64-avx2.exe"} -> "pcsx2"
          [] OTHER -> "dolphin"]

\* The two copies of the window sender differ in their transient filters only.
Builds == {"files_pc", "root"}

\* files_pc/tty2rpi_sender.py: the table of ignored substrings
IGNORE_SUBSTRINGS(emulator) ==
    CASE emulator = "duckstation" ->
           {"duckstation-qt-x64-releaseltcg", "select disc image",
            "automatic updater", "about duckstation", "about qt", "padtest",
            "memory scanner", "download covers", "memory card editor",
            "iso browser", "select search directory", "duckstation settings",
            "error", "select save state file", "duckstation controller presets",
            "select background image"}
      [] emulator = "pcsx2" ->
           {"pcsx2-qt", "ps2 bios (usa)", "select iso image", "open iso",
            "about pcsx2", "about qt", "automatic updater",
            "select location to save block dump", "show advanced settings",
            "select search directory", "select save state file"}
      [] emulator = "dolphin" -> {"dolphin-emu", "confirm", "open file"}
      [] OTHER -> {}

is_transient_title(emulator, low_title) ==
    \E needle \in IGNORE_SUBSTRINGS(emulator) : Contains(low_title, needle)

\* tty2rpi_sender.py: the same filter, written inline in parse_and_send
InlineTransient(emulator, low) ==
    CASE emulator = "duckstation" ->
           \/ Contains(low, "duckstation-qt-x64-releaseltcg")
           \/ Contains(low, "select disc image")
           \/ Contains(low, "automatic updater")
           \/ Contains(low, "about duckstation")
           \/ Contains(low, "about qt")
           \/ Contains(low, "padtest")
      [] emulator = "pcsx2" ->
           \/ Contains(low, "pcsx2-qt")
           \/ Contains(low, "ps2 bios (usa)")
           \/ Contains(low, "select iso image")
           \/ Contains(low, "open iso")
           \/ Contains(low, "about pcsx2")
           \/ Contains(low, "about qt")
           \/ Contains(low, "automatic updater")
           \/ Contains(low, "select location to save block dump")
           \/ Contains(low, "show advanced settings")
           \/ Contains(low, "select search directory")
           \/ Contains(low, "select save state file")
      [] emulator = "dolphin" ->
           \/ Contains(low, "dolphin-emu")
           \/ Contains(low, "confirm")
           \/ (Contains(low, "open") /\ Contains(low, "file"))
      [] OTHER -> FALSE

\* A variant of the filter that lets the emulator's own menu titles through.
TransientUnlessMenu(bld, emulator, low) ==
    /\ ~StartsWith(low, emulator)
    /\ IF bld = "files_pc"
       THEN is_transient_title(emulator, low)
       ELSE InlineTransient(emulator, low)

\* The transient test of the running copy.
Transient(bld, emulator, low) ==
    IF bld = "files_pc"
    THEN is_transient_title(emulator, low)
    ELSE InlineTransient(emulator, low)

\* ------------------------------------------------------------ window sender: title parsing

\* A variant that looks for the closing bracket from the start of the title.
MameRomFromStart(new_title) ==
    LET start == PyFind(new_title, "[", 0)
        end == PyFind(new_title, "]", 0)
    IN  IF start # -1 /\ end # -1
        THEN LET loaded_rom == Slice(new_title, start + 1, end)
             IN  IF loaded_rom = "___empty" THEN Some("MAME-MENU") ELSE Some(loaded_rom)
        ELSE None

\* The MAME branch of parse_and_send: loaded_rom, or None.
MameRom(new_title) ==
    LET start == PyFind(new_title, "[", 0)
        end == PyFind(new_title, "]", start)
    IN  IF start # -1 /\ end # -1
        THEN LET loaded_rom == Slice(new_title, start + 1, end)
             IN  IF loaded_rom = "___empty" THEN Some("MAME-MENU") ELSE Some(loaded_rom)
        ELSE None

\* A variant that takes a bare "-" for the marker.
FlycastRomBareDash(new_title, low) ==
    IF StartsWith(low, "flycast")
    THEN LET dash == PyFind(new_title, "-", 0)
         IN  IF dash # -1
             THEN Some(StrStrip(SliceFrom(new_title, dash + 2)))
             ELSE Some("DCEMU-MENU")
    ELSE Some(StrStrip(new_title))

\* The Flycast branch.
FlycastRom(new_title, low) ==
    IF StartsWith(low, "flycast")
    THEN LET dash == PyFind(new_title, "- ", 0)
         IN  IF dash # -1
             THEN Some(StrStrip(SliceFrom(new_title, dash + 2)))
             ELSE Some("DCEMU-MENU")
    ELSE Some(StrStrip(new_title))

\* A variant that looks for the prefix in the title as written.
MenuOrTitleCased(new_title, low, prefix, menu) ==
    IF StartsWith(new_title, prefix) THEN Some(menu) ELSE Some(StrStrip(new_title))

\* The branches that tell the emulator's menu window from a game window by
\* the title's prefix.
MenuOrTitle(new_title, low, prefix, menu) ==
    IF StartsWith(low, prefix) THEN Some(menu) ELSE Some(StrStrip(new_title))

\* parse_and_send up to "if not loaded_rom": [skip |-> the transient return
\* was taken, rom |-> loaded_rom].
LoadedRom(bld, emulator, new_title) ==
    LET low == StrStrip(StrLower(new_title))
    IN  CASE emulator = "mame" ->
               [skip |-> FALSE, rom |-> MameRom(new_title)]
          [] emulator = "flycast" ->
               [skip |-> FALSE, rom |-> FlycastRom(new_title, low)]
          [] emulator = "duckstation" ->
               IF Transient(bld, emulator, low)
               THEN [skip |-> TRUE, rom |-> None]
               ELSE [skip |-> FALSE,
                     rom |-> MenuOrTitle(new_title, low, "duckstation", "PS1EMU-MENU")]
          [] emulator = "teknoparrot" ->
               [skip |-> FALSE,
                rom |-> MenuOrTitle(new_title, low, "teknoparrot", "TPEMU-MENU")]
          [] emulator = "pcsx2" ->
               IF Transient(bld, emulator, low)
               THEN [skip |-> TRUE, rom |-> None]
               ELSE [skip |-> FALSE,
                     rom |-> MenuOrTitle(new_title, low, "pcsx2", "PS2EMU-MENU")]
          [] emulator = "dolphin" ->
               IF Transient(bld, emulator, low)
               THEN [skip |-> TRUE, rom |-> None]
               ELSE [skip |-> FALSE,
                     rom |-> MenuOrTitle(new_title, low, "dolphin", "DOLPHIN-MENU")]
          [] OTHER -> [skip |-> FALSE, rom |-> None]

\* A variant that takes only None for falsy, not the empty str.
FalsyNoneOnly(x) == x = None

\* not x, for an optional str
Falsy(x) == x = None \/ x = Some("")

\* ------------------------------------------------------------ state

MaxHwnd == 2
Hwnds == 1..MaxHwnd

VARIABLES
    \* the run's environment, fixed at start
    sender,             \* which program runs: "window" or "device"
    build,              \* which copy of the window sender runs
    env_hwnds,          \* the window handles the desktop hands out
    env_procs,          \* the process names that own windows
    env_titles,         \* the title texts windows show
    \* the desktop (win32gui / psutil)
    win_exists,         \* IsWindow(hwnd)
    win_visible,        \* IsWindowVisible(hwnd)
    win_title,          \* GetWindowText(hwnd)
    win_proc,           \* the owning process's name
    \* the window sender's runtime state
    tracked_windows,
    last_sent_titles,
    hwnd_emulator,
    last_sent_payload,
    last_global_payload,
    pc,                 \* where main_loop stands: "find", "enum", "sweep", "stopped"
    todo,               \* the handles the running enumeration or sweep has left
    \* observation: what the last step did, the last removal, and the last
    \* payload handed to update_tty2rpi_marquee with the window it came from
    ev,
    gone,
    handed

wvars == <<sender, build, env_hwnds, env_procs, env_titles, win_exists, win_visible,
           win_title, win_proc, tracked_windows, last_sent_titles,
           hwnd_emulator, last_sent_payload, last_global_payload, pc, todo,
           ev, gone, handed>>

\* The window sender's part of the state but for the last payload handed over.
wstate == <<sender, build, env_hwnds, env_procs, env_titles, win_exists, win_visible,
            win_title, win_proc, tracked_windows, last_sent_titles,
            hwnd_emulator, last_sent_payload, last_global_payload, pc, todo,
            ev, gone>>

envvars == <<sender, build, env_hwnds, env_procs, env_titles>>
osvars == <<win_exists, win_visible, win_title, win_proc>>
progvars == <<tracked_windows, last_sent_titles, hwnd_emulator,
              last_sent_payload, last_global_payload, pc, todo>>

\* The device sender's runtime state.
VARIABLES
    GAME_DB,
    current_ip,
    last_game_name,
    last_mode,
    dpc,                \* where the watcher's loop stands: "top", "poll",
                        \* "publish" (inside update_tty2rpi_marquee), "sleep",
                        \* "stopped"
    pub,                \* the running update_tty2rpi_marquee call
    \* the files on the Raspberry Pi (None: no such file)
    sock,               \* /dev/shm/tty2rpi.socket
    tmp,                \* /dev/shm/tty2rpi.socket.tmp
    \* observation: what the last step did, the state document the previous
    \* pass polled from the connected device (None: it polled none), and
    \* what a reader of the channel file read in the last step
    dev_ev,
    dev_obs,
    seen

dvars == <<GAME_DB, current_ip, last_game_name, last_mode, dpc, pub, sock, tmp,
           dev_ev, dev_obs, seen>>

\* The watcher's own state, and the files with the call that writes them.
dstate == <<GAME_DB, current_ip, last_game_name, last_mode>>
fvars == <<pub, sock, tmp>>

vars == <<wvars, dvars>>

NoDevEv == [op |-> "none", host |-> None, data |-> None, mode |-> "",
            game_name |-> None, prev_name |-> None, prev_mode |-> None,
            prev_obs |-> None, fresh |-> FALSE, hook |-> FALSE, sent |-> FALSE,
            ok |-> FALSE, payload |-> None, last |-> None, answered |-> FALSE,
            first |-> ""]

NoEv == [op |-> "none", hwnd |-> 0, title |-> "", prev |-> None, emu |-> None,
         skip |-> FALSE, rom |-> None, payload |-> None, own |-> None,
         glob |-> None, sent |-> FALSE, ok |-> FALSE, intr |-> FALSE, gone |-> None,
         last |-> None, sent_title |-> None]

NoGone == [payload |-> None, pending |-> {}]

NoneHanded == [payload |-> None, hwnd |-> 0, out |-> "none"]

\* No call of update_tty2rpi_marquee is running. A call stands at "called",
\* "connected", "opened", "written", "failed" (in the except clause) or
\* "done" (about to return); before is the channel file as the call found
\* it, and at is where the call stood when a statement of it raised.
NoPub == [pc |-> "idle", data |-> "", before |-> None, out |-> "none", at |-> ""]

NoSeen == [read |-> FALSE, content |-> None]

\* All orders of a finite set.
Perms(S) ==
    {q \in [1..Cardinality(S) -> S] : \A i, j \in 1..Cardinality(S) : q[i] = q[j] => i = j}

TrackedKeys == {tracked_windows[i].k : i \in 1..Len(tracked_windows)}

\* ------------------------------------------------------------ the desktop

\* The desktop changes while main_loop sleeps between two passes; a pass
\* reads the desktop as the sleep left it.
Asleep == sender = "window" /\ pc = "find"

CreateWindow(h, p, t, vis) ==
    /\ Asleep
    /\ h \in env_hwnds \ win_exists
    /\ \A g \in env_hwnds \ win_exists : h <= g
    /\ p \in env_procs
    /\ t \in env_titles
    /\ win_exists' = win_exists \cup {h}
    /\ win_visible' = IF vis THEN win_visible \cup {h} ELSE win_visible \ {h}
    /\ win_title' = [win_title EXCEPT ![h] = t]
    /\ win_proc' = [win_proc EXCEPT ![h] = p]
    /\ ev' = NoEv
    /\ UNCHANGED <<envvars, progvars, gone, handed, dvars>>

DestroyWindow(h) ==
    /\ Asleep
    /\ h \in win_exists
    /\ win_exists' = win_exists \ {h}
    /\ win_visible' = win_visible \ {h}
    /\ win_title' = [win_title EXCEPT ![h] = ""]
    /\ win_proc' = [win_proc EXCEPT ![h] = ""]
    /\ ev' = NoEv
    /\ UNCHANGED <<envvars, progvars, gone, handed, dvars>>

SetWindowText(h, t) ==
    /\ Asleep
    /\ h \in win_exists
    /\ t \in env_titles
    /\ t # win_title[h]
    /\ win_title' = [win_title EXCEPT ![h] = t]
    /\ ev' = NoEv
    /\ UNCHANGED <<envvars, progvars, gone, handed, dvars, win_exists,
                   win_visible, win_proc>>

ShowWindow(h, vis) ==
    /\ Asleep
    /\ h \in win_exists
    /\ vis # (h \in win_visible)
    /\ win_visible' = IF vis THEN win_visible \cup {h} ELSE win_visible \ {h}
    /\ ev' = NoEv
    /\ UNCHANGED <<envvars, progvars, gone, handed, dvars, win_exists,
                   win_title, win_proc>>

\* ------------------------------------------------------------ the desktops

\* The desktops of the runs that exercise tracking and the debounce: the
\* windows of one emulator (a game, the menu, a dialog), and one handle that
\* processes of several kinds reuse.
Desktops ==
    {[hwnds |-> Hwnds,
      procs |-> {"duckstation-qt-x64-releaseltcg.exe"},
      titles |-> {"Crash Bandicoot", "DuckStation", "About Qt"}],
     [hwnds |-> {1},
      procs |-> {"mame.exe", "duckstation-qt-x64-releaseltcg.exe", "notepad.exe"},
      titles |-> {"MAME: [outrun]", "outrun", "DuckStation", ""}]}

\* The titles and processes of the runs that exercise title parsing: one
\* window of one process, showing a game title and one other title, under
\* either copy of the sender.
ParseTitles ==
    {"", "   ", "___empty",
     "MAME: [outrun]", "MAME: [___empty]", "MAME", "[]", "a] [b]", "[a [b] c]",
     "[open", "x[y]z]",
     "Flycast", "Flycast - Crazy Taxi", "Flycast - ", "flycast-x",
     "Crazy Taxi", "Sonic - Adventure", "  Flycast - A - B ",
     "DuckStation", "DuckStation 0.1-7294", "DuckStation Settings", "About Qt",
     " Crash ", "Select Disc Image", "Memory Card Editor",
     "duckstation-qt-x64-ReleaseLTCG",
     "TeknoParrot", "TeknoParrotUI 1.0", "Daytona",
     "PCSX2", "PCSX2 v2.0", "pcsx2-qt", "Open ISO", "About PCSX2",
     "Dolphin", "Dolphin 5.0", "dolphin-emu", "Confirm", "Open File",
     "Open a File", "Dolphin - Open File"}
ParseProcs ==
    {"mame.exe", "flycast.exe", "duckstation-qt-x64-releaseltcg.exe",
     "teknoparrotui.exe", "pcsx2-qt.exe", "dolphin.exe"}
GameTitle == "Crash Bandicoot"

\* Every title a window shows in some run.
AllTitles == ParseTitles \cup {GameTitle} \cup UNION {d.titles : d \in Desktops}

\* parse_and_send's parse of every such title, for every copy and emulator.
LoadedRomOf ==
    [bld \in Builds |-> [emulator \in Emulators |->
        [new_title \in AllTitles |-> LoadedRom(bld, emulator, new_title)]]]

\* ------------------------------------------------------------ parse_and_send

\* Variants of the debounce test: one that needs both payloads to match, one
\* that forgets the global payload.
IsDuplicateBoth(own, glob, payload) == own = Some(payload) /\ glob = Some(payload)
IsDuplicateOwnOnly(own, glob, payload) == own = Some(payload)

\* The debounce test: True when the payload is not to be sent.
IsDuplicate(own, glob, payload) == own = Some(payload) \/ glob = Some(payload)

\* How a call of update_tty2rpi_marquee ends: the write succeeded, it failed
\* with an Exception (logged by the publisher, which then returns), or a
\* KeyboardInterrupt cut it short (which the publisher does not catch).
Outcomes == {"ok", "fail", "interrupt"}

\* A variant that stores the new value before the publisher is called.
StateBeforeSend(out, old, new) == new

\* A variant that keeps the old value when the delivery failed.
StateRolledBack(out, old, new) == IF out = "ok" THEN new ELSE old

\* The value of a debounce variable after "update_tty2rpi_marquee(payload)"
\* and the assignment that follows it: the assignment is reached when the
\* publisher returns.
StateAfterSend(out, old, new) == IF out = "interrupt" THEN old ELSE new

\* A variant that takes the kind of the process that owns the window now.
KindOfProcess(emus, hwnd) ==
    IF win_proc[hwnd] \in DOMAIN PROCESS_TO_EMU
    THEN Some(PROCESS_TO_EMU[win_proc[hwnd]])
    ELSE None

\* "emulator = hwnd_emulator.get(hwnd)": the kind recorded for the window.
KindOf(emus, hwnd) == DictGet(emus, hwnd)

\* A variant that records the payload it does not send.
AfterDuplicateRecords(old, new) == new

\* The value of a debounce variable after "[SKIP DUP] ... return": the
\* assignments are not reached.
AfterDuplicate(old, new) == old

\* parse_and_send(hwnd, new_title) with hwnd_emulator = emus and the
\* publisher's outcome out: what it computed and the state it leaves.
ParseAndSend(emus, hwnd, new_title, out) ==
    LET emulator == KindOf(emus, hwnd)
        own == DictGet(last_sent_payload, hwnd)
        base == [emu |-> emulator, skip |-> FALSE, rom |-> None,
                 payload |-> None, own |-> own, glob |-> last_global_payload,
                 sent |-> FALSE, ok |-> FALSE, out |-> "none", intr |-> FALSE,
                 lsp |-> last_sent_payload, lgp |-> last_global_payload]
    IN  IF Falsy(emulator) THEN base
        ELSE
        LET r == LoadedRomOf[build][emulator[1]][new_title]
        IN  IF r.skip THEN [base EXCEPT !.skip = TRUE]
            ELSE IF Falsy(r.rom) THEN [base EXCEPT !.rom = r.rom]
            ELSE
            LET payload == CMDCOR_DATA \o r.rom[1]
            IN  IF IsDuplicate(own, last_global_payload, payload)
                THEN [base EXCEPT !.rom = r.rom, !.payload = Some(payload),
                                  !.lsp = AfterDuplicate(last_sent_payload,
                                            DictSet(last_sent_payload, hwnd, payload)),
                                  !.lgp = AfterDuplicate(last_global_payload,
                                            Some(payload))]
                ELSE [base EXCEPT !.rom = r.rom, !.payload = Some(payload),
                                  !.sent = TRUE, !.ok = (out = "ok"),
                                  !.out = out, !.intr = (out = "interrupt"),
                                  !.lsp = StateAfterSend(out, last_sent_payload,
                                            DictSet(last_sent_payload, hwnd, payload)),
                                  !.lgp = StateAfterSend(out, last_global_payload,
                                            Some(payload))]

\* The observation of a step that ran parse_and_send.
ParseEv(op, hwnd, new_title, prev, r) ==
    [op |-> op, hwnd |-> hwnd, title |-> new_title, prev |-> prev,
     emu |-> r.emu, skip |-> r.skip, rom |-> r.rom, payload |-> r.payload,
     own |-> r.own, glob |-> r.glob, sent |-> r.sent, ok |-> r.ok,
     intr |-> r.intr,
     gone |-> IF hwnd \in gone.pending THEN gone.payload ELSE None,
     last |-> handed, sent_title |-> DictGet(last_sent_titles, hwnd)]

\* The last hand-off after a step that ran parse_and_send.
HandedAfter(hwnd, r) ==
    IF r.sent THEN [payload |-> r.payload, hwnd |-> hwnd, out |-> r.out] ELSE handed

\* The last removal once hwnd has been observed again: hwnd no longer waits
\* for its next observation.
GoneAfter(hwnd) ==
    IF gone.pending \ {hwnd} = {} THEN NoGone
    ELSE [gone EXCEPT !.pending = @ \ {hwnd}]

\* ------------------------------------------------------------ main_loop

\* find_and_add_matching_windows: EnumWindows lists the top-level windows,
\* then calls back for each.
EnumStart ==
    /\ sender = "window"
    /\ pc = "find"
    /\ \E order \in Perms(win_exists) : todo' = order
    /\ pc' = "enum"
    /\ ev' = NoEv
    /\ UNCHANGED <<envvars, osvars, tracked_windows, last_sent_titles,
                   hwnd_emulator, last_sent_payload, last_global_payload,
                   gone, handed, dvars>>

\* What callback(hwnd, _) finds: the emulator of a visible, titled window of
\* a known process, or None.
Matching(hwnd) ==
    IF /\ hwnd \in win_visible
       /\ win_title[hwnd] # ""
       /\ win_proc[hwnd] \in DOMAIN PROCESS_TO_EMU
    THEN Some(PROCESS_TO_EMU[win_proc[hwnd]])
    ELSE None

\* Where the loop stands after a step over Head(todo): a KeyboardInterrupt
\* that left the publisher ends main_loop ("Stopped monitoring.").
Interrupted(intr) ==
    /\ pc' = IF intr THEN "stopped" ELSE pc
    /\ todo' = IF intr THEN <<>> ELSE Tail(todo)

\* callback(hwnd, _) of find_and_add_matching_windows
Callback ==
    /\ sender = "window"
    /\ pc = "enum"
    /\ todo # <<>>
    /\ LET hwnd == Head(todo)
           title == win_title[hwnd]
           emu == Matching(hwnd)
       IN  IF emu # None /\ ~ODHas(tracked_windows, hwnd)
           THEN \E out \in Outcomes :
                  LET emus == DictSet(hwnd_emulator, hwnd, emu[1])
                      r == ParseAndSend(emus, hwnd, title, out)
                  IN  /\ tracked_windows' = ODSet(tracked_windows, hwnd, title)
                      /\ hwnd_emulator' = emus
                      /\ last_sent_payload' = r.lsp
                      /\ last_global_payload' = r.lgp
                      /\ last_sent_titles' = IF r.intr THEN last_sent_titles
                                             ELSE DictSet(last_sent_titles, hwnd, title)
                      /\ ev' = ParseEv("new", hwnd, title, None, r)
                      /\ gone' = GoneAfter(hwnd)
                      /\ handed' = HandedAfter(hwnd, r)
                      /\ Interrupted(r.intr)
           ELSE /\ ev' = [NoEv EXCEPT !.op = "pass", !.hwnd = hwnd]
                /\ Interrupted(FALSE)
                /\ UNCHANGED <<tracked_windows, hwnd_emulator, last_sent_payload,
                               last_global_payload, last_sent_titles, gone,
                               handed>>
    /\ UNCHANGED <<envvars, osvars, dvars>>

\* for hwnd in list(tracked_windows.keys()): the snapshot of the keys
SweepStart ==
    /\ sender = "window"
    /\ pc = "enum"
    /\ todo = <<>>
    /\ pc' = "sweep"
    /\ todo' = ODKeys(tracked_windows)
    /\ ev' = NoEv
    /\ UNCHANGED <<envvars, osvars, tracked_windows, last_sent_titles,
                   hwnd_emulator, last_sent_payload, last_global_payload,
                   gone, handed, dvars>>

\* A variant of the test that takes every handle for a window.
IsWindowAlways(hwnd) == TRUE

\* win32gui.IsWindow(hwnd)
IsWindow(hwnd) == hwnd \in win_exists

\* A variant of the removal that also forgets the global payload.
CloseWindowClearsGlobal(hwnd) ==
    /\ tracked_windows' = ODPop(tracked_windows, hwnd)
    /\ last_sent_titles' = DictPop(last_sent_titles, hwnd)
    /\ hwnd_emulator' = DictPop(hwnd_emulator, hwnd)
    /\ last_sent_payload' = DictPop(last_sent_payload, hwnd)
    /\ last_global_payload' = None

\* A variant of the removal that leaves the window's last payload behind.
CloseWindowKeepsPayload(hwnd) ==
    /\ tracked_windows' = ODPop(tracked_windows, hwnd)
    /\ last_sent_titles' = DictPop(last_sent_titles, hwnd)
    /\ hwnd_emulator' = DictPop(hwnd_emulator, hwnd)
    /\ last_sent_payload' = last_sent_payload
    /\ last_global_payload' = last_global_payload

\* The removal of a closed window.
CloseWindow(hwnd) ==
    /\ tracked_windows' = ODPop(tracked_windows, hwnd)
    /\ last_sent_titles' = DictPop(last_sent_titles, hwnd)
    /\ hwnd_emulator' = DictPop(hwnd_emulator, hwnd)
    /\ last_sent_payload' = DictPop(last_sent_payload, hwnd)
    /\ last_global_payload' = last_global_payload

\* One pass of the loop body over a tracked window.
SweepWindow ==
    /\ sender = "window"
    /\ pc = "sweep"
    /\ todo # <<>>
    /\ LET hwnd == Head(todo)
           current_title == win_title[hwnd]
           prev == ODGet(tracked_windows, hwnd)
       IN  /\ IF ~IsWindow(hwnd)
              THEN /\ CloseWindow(hwnd)
                   /\ Interrupted(FALSE)
                   /\ ev' = [NoEv EXCEPT !.op = "closed", !.hwnd = hwnd, !.prev = prev,
                                         !.own = DictGet(last_sent_payload, hwnd),
                                         !.glob = last_global_payload]
                   /\ gone' = IF hwnd \in DOMAIN last_sent_payload /\ TrackedKeys # {hwnd}
                              THEN [payload |-> DictGet(last_sent_payload, hwnd),
                                    pending |-> TrackedKeys \ {hwnd}]
                              ELSE NoGone
                   /\ UNCHANGED handed
              ELSE IF Some(current_title) = prev
              THEN /\ ev' = [NoEv EXCEPT !.op = "same", !.hwnd = hwnd,
                                         !.title = current_title, !.prev = prev]
                   /\ gone' = GoneAfter(hwnd)
                   /\ Interrupted(FALSE)
                   /\ UNCHANGED <<tracked_windows, hwnd_emulator, last_sent_payload,
                                  last_global_payload, last_sent_titles, handed>>
              ELSE \E out \in Outcomes :
                     LET r == ParseAndSend(hwnd_emulator, hwnd, current_title, out)
                     IN  /\ tracked_windows' = ODSet(tracked_windows, hwnd, current_title)
                         /\ last_sent_payload' = r.lsp
                         /\ last_global_payload' = r.lgp
                         /\ last_sent_titles' =
                              IF r.intr THEN last_sent_titles
                              ELSE DictSet(last_sent_titles, hwnd, current_title)
                         /\ ev' = ParseEv("changed", hwnd, current_title, prev, r)
                         /\ gone' = GoneAfter(hwnd)
                         /\ handed' = HandedAfter(hwnd, r)
                         /\ Interrupted(r.intr)
                         /\ UNCHANGED hwnd_emulator
    /\ UNCHANGED <<envvars, osvars, dvars>>

\* time.sleep(CHECK_INTERVAL), and the loop starts over
Sleep ==
    /\ sender = "window"
    /\ pc = "sweep"
    /\ todo = <<>>
    /\ pc' = "find"
    /\ ev' = NoEv
    /\ UNCHANGED <<envvars, osvars, tracked_windows, last_sent_titles,
                   hwnd_emulator, last_sent_payload, last_global_payload,
                   todo, gone, handed, dvars>>

\* Ctrl-C outside the publisher's call (in time.sleep, as a rule): "except
\* KeyboardInterrupt" logs "Stopped monitoring." and main_loop returns.
Interrupt ==
    /\ sender = "window"
    /\ pc \in {"find", "enum", "sweep"}
    /\ pc' = "stopped"
    /\ ev' = [NoEv EXCEPT !.op = "stopped"]
    /\ UNCHANGED <<envvars, osvars, tracked_windows, last_sent_titles,
                   hwnd_emulator, last_sent_payload, last_global_payload,
                   todo, gone, handed, dvars>>

\* ------------------------------------------------------------ device sender: constants

\* tty2rpi_sender.ini, [MemCardPro]
MCP2_IP == "192.168.1.50"
MCP_GC_IP == "192.168.1.51"
default_ps1_mc == "MemoryCard1"
default_ps2_mc == " memorycard1 "
default_gc_mc == ""

\* A variant that trims but keeps the letters' case.
NormKeepCase(s) == IF s = None THEN "" ELSE StrStrip(s[1])

\* _norm(s): (s or "").strip().upper(), s a str or None
Norm(s) == IF s = None THEN "" ELSE StrUpper(StrStrip(s[1]))

default_ps1_mc_norm == Norm(Some(default_ps1_mc))
default_ps2_mc_norm == Norm(Some(default_ps2_mc))
default_gc_mc_norm == Norm(Some(default_gc_mc))

\* x or y, for optional strs
Or(x, y) == IF Falsy(x) THEN y ELSE x

\* ------------------------------------------------------------ device sender: game table

\* A CSV file is None (no such file) or its rows in order, a row the
\* <<column, value>> cells in header order.
Cell(row, col) ==
    IF \E i \in 1..Len(row) : row[i][1] = col
    THEN Some(row[CHOOSE i \in 1..Len(row) : row[i][1] = col][2])
    ELSE None

\* A variant that stores v whether or not the key is there.
SetDefaultOverwrite(db, k, v) == DictSet(db, k, v)

\* db.setdefault(k, v)
SetDefault(db, k, v) == IF k \in DOMAIN db THEN db ELSE DictSet(db, k, v)

\* The inner loop of load_game_db over the cells of one row, from cell i.
RECURSIVE LoadRow(_, _, _, _, _)
LoadRow(db, row, i, title, serial) ==
    IF i > Len(row) THEN db
    ELSE LET v == row[i][2]
         IN  IF v = ""
             THEN LoadRow(db, row, i + 1, title, serial)
             ELSE LoadRow(SetDefault(SetDefault(db, v, <<title, serial>>),
                                     Norm(Some(v)), <<title, serial>>),
                          row, i + 1, title, serial)

\* The outer loop, from row i.
RECURSIVE LoadRows(_, _, _)
LoadRows(db, rows, i) ==
    IF i > Len(rows) THEN db
    ELSE LET row == rows[i]
             title == Or(Cell(row, "title"), Some(""))[1]
             serial == Or(Cell(row, "serial"), Some(""))[1]
         IN  LoadRows(LoadRow(db, row, 1, title, serial), rows, i + 1)

load_game_db(csv) == IF csv = None THEN <<>> ELSE LoadRows(<<>>, csv[1], 1)

\* ------------------------------------------------------------ device sender: get_game_id

\* A variant in which the GC endpoint decides before the reported mode.
DeviceModeInferredFirst(host, data) ==
    LET reported_mode == StrUpper(Or(DictGet(data, "currentMode"), Some(""))[1])
        inferred_mode == IF host = MCP_GC_IP THEN Some("GC") ELSE None
    IN  StrUpper(Or(Or(inferred_mode, Some(reported_mode)), Some(""))[1])

\* The mode of a poll: the reported mode, else GC for the GC endpoint.
DeviceMode(host, data) ==
    LET reported_mode == StrUpper(Or(DictGet(data, "currentMode"), Some(""))[1])
        inferred_mode == IF host = MCP_GC_IP THEN Some("GC") ELSE None
    IN  StrUpper(Or(Or(Some(reported_mode), inferred_mode), Some(""))[1])

\* A variant that falls back on the recorded mode when the poll has none.
MemoryCardTokenSticky(mode) ==
    LET m == IF mode = "" /\ last_mode # None THEN last_mode[1] ELSE mode
    IN  CASE m = "PS1" -> Some(default_ps1_mc_norm)
          [] m = "PS2" -> Some(default_ps2_mc_norm)
          [] m = "GC" -> Some(default_gc_mc_norm)
          [] OTHER -> None

\* The default memory card token of a mode.
MemoryCardToken(mode) ==
    CASE mode = "PS1" -> Some(default_ps1_mc_norm)
      [] mode = "PS2" -> Some(default_ps2_mc_norm)
      [] mode = "GC" -> Some(default_gc_mc_norm)
      [] OTHER -> None

\* A variant that takes the entry's serial when it has one.
DbTitleOrSerial(db, key) ==
    IF key \in DOMAIN db
    THEN Some(IF db[key][2] # "" THEN db[key][2] ELSE db[key][1])
    ELSE None

\* The title of a table entry, or None.
DbTitle(db, key) == IF key \in DOMAIN db THEN Some(db[key][1]) ELSE None

\* A variant that looks the id up in the game table first.
GameNameTableFirst(db, mode, data) ==
    LET memory_card_token == MemoryCardToken(mode)
        game_id == Or(Or(DictGet(data, "game_id"), DictGet(data, "gameID")), Some(""))[1]
        gid_norm == Norm(Some(game_id))
        raw == Or(DbTitle(db, game_id), DbTitle(db, gid_norm))
    IN  IF ~Falsy(raw) THEN raw
        ELSE IF ~Falsy(memory_card_token) /\ gid_norm = memory_card_token[1]
        THEN (IF mode # "" THEN Some(mode) ELSE Some("EMU_MENU"))
        ELSE raw

\* A variant that falls back on the reported id when the table has no title.
GameNameIdFallback(db, mode, data) ==
    LET memory_card_token == MemoryCardToken(mode)
        game_id == Or(Or(DictGet(data, "game_id"), DictGet(data, "gameID")), Some(""))[1]
        gid_norm == Norm(Some(game_id))
    IN  IF ~Falsy(memory_card_token) /\ gid_norm = memory_card_token[1]
        THEN (IF mode # "" THEN Some(mode) ELSE Some("EMU_MENU"))
        ELSE Or(Or(DbTitle(db, game_id), DbTitle(db, gid_norm)), Some(game_id))

\* game_name as get_game_id resolves it; a falsy result is the silent skip.
GameName(db, mode, data) ==
    LET memory_card_token == MemoryCardToken(mode)
        game_id == Or(Or(DictGet(data, "game_id"), DictGet(data, "gameID")), Some(""))[1]
        gid_norm == Norm(Some(game_id))
    IN  IF ~Falsy(memory_card_token) /\ gid_norm = memory_card_token[1]
        THEN (IF mode # "" THEN Some(mode) ELSE Some("EMU_MENU"))
        ELSE LET raw == DbTitle(db, game_id)
             IN  IF ~Falsy(raw) THEN raw ELSE DbTitle(db, gid_norm)

\* A variant that takes every resolved name for a change.
NameChangedAlways(game_name, last) == TRUE

\* "if game_name != last_game_name"
NameChanged(game_name, last) == game_name # last

\* What GET /api/currentState may answer: nothing (the request failed) or a
\* JSON object.
Documents ==
    {<<>>,
     [game_id |-> "SCUS-12345"],
     [gameID |-> "scus-12345 "],
     [currentMode |-> "PS2", game_id |-> "MemoryCard1"],
     [currentMode |-> "ps1", game_id |-> "SLUS-00001"],
     [currentMode |-> "", game_id |-> "MemoryCard1"],
     [game_id |-> "", gameID |-> "GALE01"],
     [game_id |-> "gale01"],
     [currentMode |-> "PS2", game_id |-> "UNKNOWN-1"]}
Responses == {None} \cup {Some(d) : d \in Documents}

\* Game_DB.csv as the watcher may find it.
CsvFiles ==
    {None,
     Some(<< <<<<"title", "Example Game">>, <<"serial", "SCUS-12345">>,
               <<"id", "scus_123.45">>>>,
             <<<<"title", "Luigi's Mansion">>, <<"serial", "">>,
               <<"id", "GALE01">>>>,
             <<<<"title", "">>, <<"serial", "SLUS-00001">>,
               <<"id", "">>>> >>),
     Some(<< <<<<"title", "Memory Card Manager">>, <<"serial", "MemoryCard1">>,
               <<"id", "">>>> >>),
     Some(<< <<<<"title", "Luigi's Mansion">>, <<"serial", "">>,
               <<"id", "GALE01">>>>,
             <<<<"title", "Luigi's Mansion (demo)">>, <<"serial", "">>,
               <<"id", "gale01">>>> >>)}

\* The game tables the watcher may have loaded, and the endpoints it polls.
GameTables == {load_game_db(csv) : csv \in CsvFiles}
Hosts == {MCP2_IP, MCP_GC_IP}

\* The mode of every poll, and the name get_game_id resolves for every state
\* document under every table.
DeviceModeOf == [host \in Hosts |-> [data \in Documents |-> DeviceMode(host, data)]]
GameNameOf ==
    [db \in GameTables |-> [host \in Hosts |-> [data \in Documents |->
        GameName(db, DeviceMode(host, data), data)]]]

\* A variant that takes the unknown mode for a mode like any other.
ModeChangedAnyMode(mode, last) == Some(mode) # last

\* "if mode and mode != last_mode"
ModeChanged(mode, last) == mode # "" /\ Some(mode) # last

\* get_game_id(host) on a state document data (not falsy), up to the call of
\* update_tty2rpi_marquee: what it computed and the mode it records.
GetGameId(host, data) ==
    LET mode == DeviceModeOf[host][data]
        hook == ModeChanged(mode, last_mode)
        game_name == GameNameOf[GAME_DB][host][data]
        send == ~Falsy(game_name) /\ NameChanged(game_name, last_game_name)
    IN  [mode |-> mode, hook |-> hook, game_name |-> game_name, sent |-> send,
         payload |-> IF send THEN Some(CMDCOR_DATA \o game_name[1]) ELSE None,
         last_mode |-> IF hook THEN Some(mode) ELSE last_mode]

\* ------------------------------------------------------------ device sender: the watcher's loop

\* get_state's result is falsy: the request failed or the object is empty.
NoState(resp) == resp = None \/ resp = Some(<<>>)

\* What a request got: no answer, an empty object, or a state document.
Answer(resp) ==
    IF resp = None THEN "none" ELSE IF resp = Some(<<>>) THEN "empty" ELSE "state"

\* A variant of the probe that tries the GC endpoint first.
find_memcard_ip_gc_first(r1, r2) ==
    IF MCP_GC_IP # "" /\ ~NoState(r2) THEN Some(MCP_GC_IP)
    ELSE IF MCP2_IP # "" /\ ~NoState(r1) THEN Some(MCP2_IP)
    ELSE None

\* find_memcard_ip() given what the two endpoints answer
find_memcard_ip(r1, r2) ==
    IF MCP2_IP # "" /\ ~NoState(r1) THEN Some(MCP2_IP)
    ELSE IF MCP_GC_IP # "" /\ ~NoState(r2) THEN Some(MCP_GC_IP)
    ELSE None

\* A variant of the loop that sleeps after every probe.
AfterProbeSleeps(ip) == "sleep"

\* Where the loop goes after the probe: on to get_game_id when a device was
\* found, else to the sleep and around.
AfterProbe(ip) == IF ip # None THEN "poll" ELSE "sleep"

\* The loop's top with no device connected: probe the endpoints.
DevProbe ==
    /\ sender = "device"
    /\ dpc = "top"
    /\ current_ip = None
    /\ \E r1, r2 \in Responses :
         LET ip == find_memcard_ip(r1, r2)
         IN  /\ dpc' = AfterProbe(ip)
             /\ IF ip # None
                THEN /\ current_ip' = ip
                     /\ last_mode' = None
                     /\ dev_ev' = [NoDevEv EXCEPT !.op = "detected", !.host = ip,
                                                  !.answered = TRUE,
                                                  !.first = Answer(r1)]
                ELSE /\ dev_ev' = [NoDevEv EXCEPT !.op = "nodevice",
                                                  !.answered = (r1 # None \/ r2 # None)]
                     /\ UNCHANGED <<current_ip, last_mode>>
    /\ dev_obs' = None
    /\ seen' = NoSeen
    /\ UNCHANGED <<wvars, GAME_DB, last_game_name, fvars>>

\* A variant of the loop that forgets the published name with the device.
SourceLostForgetsName(game_name, mode) ==
    [last_game_name |-> None, last_mode |-> None]

\* A variant of the loop that keeps the recorded mode when the device is lost.
SourceLostKeepsMode(game_name, mode) ==
    [last_game_name |-> game_name, last_mode |-> mode]

\* A variant of the loop that ends when the poll failed.
AfterLossStops == "stopped"

\* Where the loop goes after a failed poll: on to the sleep and around.
AfterLoss == "sleep"

\* What the loop keeps of get_game_id's globals when the poll failed:
\* "current_ip = None; last_mode = None", and last_game_name is not assigned.
SourceLost(game_name, mode) ==
    [last_game_name |-> game_name, last_mode |-> None]

\* "if not get_game_id(current_ip)": poll the connected device. When the name
\* changed, get_game_id enters update_tty2rpi_marquee; it comes back to
\* "last_game_name = game_name" when the call returns.
DevPoll ==
    /\ sender = "device"
    /\ dpc = "poll" \/ (dpc = "top" /\ current_ip # None)
    /\ \E resp \in Responses :
         IF NoState(resp)
         THEN /\ current_ip' = None
              /\ last_mode' = SourceLost(last_game_name, last_mode).last_mode
              /\ last_game_name' =
                   SourceLost(last_game_name, last_mode).last_game_name
              /\ dev_obs' = None
              /\ dev_ev' = [NoDevEv EXCEPT !.op = "lost", !.host = current_ip,
                                           !.prev_name = last_game_name,
                                           !.prev_mode = last_mode,
                                           !.prev_obs = dev_obs,
                                           !.fresh = (dpc = "poll"),
                                           !.answered = (resp # None)]
              /\ dpc' = AfterLoss
              /\ UNCHANGED <<handed, pub>>
         ELSE LET r == GetGameId(current_ip[1], resp[1])
              IN  /\ last_mode' = r.last_mode
                  /\ dev_obs' = Some(<<current_ip[1], resp[1]>>)
                  /\ dev_ev' = [op |-> "polled", host |-> current_ip,
                                data |-> resp, mode |-> r.mode,
                                game_name |-> r.game_name,
                                prev_name |-> last_game_name,
                                prev_mode |-> last_mode, prev_obs |-> dev_obs,
                                fresh |-> (dpc = "poll"),
                                hook |-> r.hook, sent |-> r.sent, ok |-> FALSE,
                                payload |-> r.payload, last |-> handed,
                                answered |-> TRUE, first |-> ""]
                  /\ IF r.sent
                     THEN /\ handed' = [payload |-> r.payload, hwnd |-> 0,
                                        out |-> "none"]
                          /\ pub' = [pc |-> "called", data |-> r.payload[1],
                                     before |-> sock, out |-> "none", at |-> ""]
                          /\ dpc' = "publish"
                     ELSE /\ dpc' = "sleep"
                          /\ UNCHANGED <<handed, pub>>
                  /\ UNCHANGED <<current_ip, last_game_name>>
    /\ seen' = NoSeen
    /\ UNCHANGED <<wstate, GAME_DB, sock, tmp>>

\* time.sleep(CHECK_INTERVAL), and the loop starts over
DevSleep ==
    /\ sender = "device"
    /\ dpc = "sleep"
    /\ dpc' = "top"
    /\ dev_ev' = NoDevEv
    /\ seen' = NoSeen
    /\ UNCHANGED <<wvars, dstate, fvars, dev_obs>>

\* ------------------------------------------------------------ device sender: update_tty2rpi_marquee

\* The copies of the device sender: the Raspberry Pi's writes the channel file
\* locally, the PC's writes it over SFTP.
DeviceBuilds == {"files_rpi", "files_pc"}

\* A step of the running call; the rest of the watcher stands still.
PubStep(from, to, out) ==
    /\ sender = "device"
    /\ dpc = "publish"
    /\ pub.pc = from
    /\ pub' = [pub EXCEPT !.pc = to, !.out = out,
                          !.at = IF to = "failed" THEN from ELSE pub.at]
    /\ dev_ev' = [dev_ev EXCEPT !.op = "publishing"]
    /\ seen' = NoSeen
    /\ UNCHANGED <<wvars, dstate, dpc, dev_obs>>

\* A variant that opens the channel file itself for writing.
LocalOpenInPlace ==
    /\ build = "files_rpi"
    /\ \E done \in BOOLEAN :
         /\ PubStep("called", IF done THEN "opened" ELSE "failed", "none")
         /\ sock' = IF done THEN Some("") ELSE sock
    /\ UNCHANGED tmp

\* files_rpi: open(tmp_path, "w") creates the temporary file or empties it.
LocalOpen ==
    /\ build = "files_rpi"
    /\ \E done \in BOOLEAN :
         /\ PubStep("called", IF done THEN "opened" ELSE "failed", "none")
         /\ tmp' = IF done THEN Some("") ELSE tmp
    /\ UNCHANGED sock

\* files_rpi: f.write, f.flush, os.fsync and the close that ends the with
\* block; a write that raises may leave the temporary file empty.
LocalWrite ==
    /\ build = "files_rpi"
    /\ \E done \in BOOLEAN :
         /\ PubStep("opened", IF done THEN "written" ELSE "failed", "none")
         /\ tmp' = IF done THEN Some(pub.data) ELSE tmp
    /\ UNCHANGED sock

\* files_rpi: os.replace(tmp_path, remote_file_path) renames the temporary
\* file onto the channel file in one step, or raises and renames nothing.
LocalReplace ==
    /\ build = "files_rpi"
    /\ \E done \in BOOLEAN :
         /\ PubStep("written", IF done THEN "done" ELSE "failed",
                    IF done THEN "ok" ELSE "none")
         /\ sock' = IF done THEN tmp ELSE sock
         /\ tmp' = IF done THEN None ELSE tmp

\* files_rpi: the except clause logs and removes the temporary file if it
\* is there (a failing removal is swallowed).
LocalCleanup ==
    /\ build = "files_rpi"
    /\ PubStep("failed", "done", "fail")
    /\ \E removed \in BOOLEAN : tmp' = IF removed THEN None ELSE tmp
    /\ UNCHANGED sock

\* files_pc: ssh.connect and ssh.open_sftp
SftpConnect ==
    /\ build = "files_pc"
    /\ \E done \in BOOLEAN :
         PubStep("called", IF done THEN "connected" ELSE "failed", "none")
    /\ UNCHANGED <<sock, tmp>>

\* files_pc: sftp.file(remote_file_path, 'w') opens the channel file itself
\* for writing, which creates it or truncates it to nothing.
SftpOpen ==
    /\ build = "files_pc"
    /\ \E done \in BOOLEAN :
         /\ PubStep("connected", IF done THEN "opened" ELSE "failed", "none")
         /\ sock' = IF done THEN Some("") ELSE sock
    /\ UNCHANGED tmp

\* files_pc: remote_file.write and remote_file.flush send the payload, and
\* the file and the connection are closed.
SftpWrite ==
    /\ build = "files_pc"
    /\ \E done \in BOOLEAN :
         /\ PubStep("opened", IF done THEN "done" ELSE "failed",
                    IF done THEN "ok" ELSE "none")
         /\ sock' = IF done THEN Some(pub.data) ELSE sock
    /\ UNCHANGED tmp

\* files_pc: the except clause logs the error.
SftpError ==
    /\ build = "files_pc"
    /\ PubStep("failed", "done", "fail")
    /\ UNCHANGED <<sock, tmp>>

\* update_tty2rpi_marquee returns, and get_game_id goes on with
\* "last_game_name = game_name" and returns True.
PublisherReturn ==
    /\ sender = "device"
    /\ dpc = "publish"
    /\ pub.pc = "done"
    /\ last_game_name' = StateAfterSend(pub.out, last_game_name, dev_ev.game_name)
    /\ dpc' = "sleep"
    /\ pub' = [pub EXCEPT !.pc = "idle"]
    /\ handed' = [handed EXCEPT !.out = pub.out]
    /\ dev_ev' = [dev_ev EXCEPT !.op = "returned", !.ok = (pub.out = "ok")]
    /\ seen' = NoSeen
    /\ UNCHANGED <<wstate, GAME_DB, current_ip, last_mode, sock, tmp, dev_obs>>

\* Ctrl-C while the call runs: KeyboardInterrupt is not an Exception, passes
\* the except clause and get_game_id, and ends the program.
PubInterrupt ==
    /\ sender = "device"
    /\ dpc = "publish"
    /\ dpc' = "stopped"
    /\ handed' = [handed EXCEPT !.out = "interrupt"]
    /\ dev_ev' = [dev_ev EXCEPT !.op = "interrupted"]
    /\ seen' = NoSeen
    /\ UNCHANGED <<wstate, dstate, fvars, dev_obs>>

\* Ctrl-C outside the publisher's call (in time.sleep, as a rule): "except
\* KeyboardInterrupt" logs "Exiting watcher." and calls sys.exit(0).
DevInterrupt ==
    /\ sender = "device"
    /\ dpc \in {"top", "poll", "sleep"}
    /\ dpc' = "stopped"
    /\ dev_ev' = [NoDevEv EXCEPT !.op = "stopped"]
    /\ seen' = NoSeen
    /\ UNCHANGED <<wstate, dstate, fvars, handed, dev_obs>>

\* Another process (tty2rpi) reads the channel file.
ReadChannel ==
    /\ sender = "device"
    /\ seen' = [read |-> TRUE, content |-> sock]
    /\ UNCHANGED <<wvars, dstate, dpc, fvars, dev_ev, dev_obs>>

\* ------------------------------------------------------------ specifications

InitProgram ==
    /\ win_exists = {}
    /\ win_visible = {}
    /\ win_title = [h \in Hwnds |-> ""]
    /\ win_proc = [h \in Hwnds |-> ""]
    /\ tracked_windows = <<>>
    /\ last_sent_titles = <<>>
    /\ hwnd_emulator = <<>>
    /\ last_sent_payload = <<>>
    /\ last_global_payload = None
    /\ pc = "find"
    /\ todo = <<>>
    /\ ev = NoEv
    /\ gone = NoGone
    /\ handed = NoneHanded

InitWatcher ==
    /\ current_ip = None
    /\ last_game_name = None
    /\ last_mode = None
    /\ dpc = "top"
    /\ dev_ev = NoDevEv
    /\ dev_obs = None
    /\ pub = NoPub
    /\ sock = None
    /\ tmp = None
    /\ seen = NoSeen

Init ==
    /\ sender = "window"
    /\ build = "files_pc"
    /\ \E d \in Desktops :
         /\ env_hwnds = d.hwnds
         /\ env_procs = d.procs
         /\ env_titles = d.titles
    /\ InitProgram
    /\ GAME_DB = <<>>
    /\ InitWatcher

Next ==
    \/ \E h \in Hwnds, p \in env_procs, t \in env_titles, vis \in BOOLEAN :
         CreateWindow(h, p, t, vis)
    \/ \E h \in Hwnds : DestroyWindow(h)
    \/ \E h \in Hwnds, t \in env_titles : SetWindowText(h, t)
    \/ \E h \in Hwnds, vis \in BOOLEAN : ShowWindow(h, vis)
    \/ EnumStart
    \/ Callback
    \/ SweepStart
    \/ SweepWindow
    \/ Sleep
    \/ Interrupt

Spec == Init /\ [][Next]_vars

InitTitles ==
    /\ build \in Builds
    /\ env_hwnds = {1}
    /\ \E p \in ParseProcs : env_procs = {p}
    /\ \E t \in ParseTitles : env_titles = {t, GameTitle}
    /\ sender = "window"
    /\ InitProgram
    /\ GAME_DB = <<>>
    /\ InitWatcher

SpecTitles == InitTitles /\ [][Next]_vars

\* The device sender's runs: the watcher with the game table it loaded.
InitDev ==
    /\ sender = "device"
    /\ build \in DeviceBuilds
    /\ env_hwnds = {}
    /\ env_procs = {}
    /\ env_titles = {}
    /\ InitProgram
    /\ \E csv \in CsvFiles : GAME_DB = load_game_db(csv)
    /\ InitWatcher

NextDev ==
    \/ DevProbe
    \/ DevPoll
    \/ DevSleep
    \/ LocalOpen
    \/ LocalWrite
    \/ LocalReplace
    \/ LocalCleanup
    \/ SftpConnect
    \/ SftpOpen
    \/ SftpWrite
    \/ SftpError
    \/ PublisherReturn
    \/ PubInterrupt
    \/ DevInterrupt
    \/ ReadChannel

SpecDev == InitDev /\ [][NextDev]_vars

\* A step of the watcher's own thread.
WatcherStep ==
    \/ DevProbe
    \/ DevPoll
    \/ DevSleep
    \/ LocalOpen
    \/ LocalWrite
    \/ LocalReplace
    \/ LocalCleanup
    \/ SftpConnect
    \/ SftpOpen
    \/ SftpWrite
    \/ SftpError
    \/ PublisherReturn

\* The watcher's runs in which its thread keeps running: every request ends
\* (HTTP_TIMEOUT), every sleep ends (CHECK_INTERVAL), and every call of
\* update_tty2rpi_marquee returns or raises. A Ctrl-C may come or not.
SpecLive == InitDev /\ [][NextDev]_vars /\ WF_vars(WatcherStep)

\* Either sender.
NextAll == Next \/ NextDev

SpecAll == (Init \/ InitDev) /\ [][NextAll]_vars

\* ------------------------------------------------------------ properties

\* A step of the window sender that ran parse_and_send.
Parsed == ev.op \in {"new", "changed"}

\* C1: parse_and_send hands a payload to the publisher only if the payload
\* differs from the window's own last published payload and from the global
\* last published payload; a payload equal to either one is not delivered.
C1_PublishOnlyIfNew ==
    Parsed =>
      /\ ev.sent => ev.payload # None /\ ev.payload # ev.own /\ ev.payload # ev.glob
      /\ (ev.payload # None /\ (ev.payload = ev.own \/ ev.payload = ev.glob))
           => ~ev.sent

\* A window resolves to the payload it published last while another payload
\* is the global last one, and nothing is delivered.
C1_Witness ==
    /\ ev.op = "changed"
    /\ ev.payload # None
    /\ ev.payload = ev.own
    /\ ev.payload # ev.glob
    /\ ~ev.sent

\* C2: no two consecutive deliveries to the publisher carry the same payload,
\* whichever windows they come from: a step that hands a payload over hands
\* one that differs from the payload handed over last.
C2_NoRepeatedDelivery == [][ev'.sent => ev'.payload # handed.payload]_vars

\* A window other than the one that delivered last resolves to the payload
\* delivered last, which it never published itself, and nothing is delivered.
C2_Witness ==
    /\ Parsed
    /\ ev.payload # None
    /\ ev.payload = ev.last.payload
    /\ ev.hwnd # ev.last.hwnd
    /\ ev.own # ev.payload
    /\ ~ev.sent

\* The sweep is about to look at a tracked window that shows the title the
\* previous look at it recorded.
SameTitleAgain ==
    /\ sender = "window"
    /\ pc = "sweep"
    /\ todo # <<>>
    /\ Head(todo) \in win_exists
    /\ ODGet(tracked_windows, Head(todo)) = Some(win_title[Head(todo)])

\* C3: while consecutive cycles observe the same thing of a source, the first
\* observation may publish and the repeats never do: a sweep step over a
\* window whose title is the one recorded before hands nothing over, and a
\* poll that reads from the same endpoint the state document the previous poll
\* read hands nothing over.
C3_RepeatsNeverPublish ==
    [][/\ SameTitleAgain =>
            /\ handed' = handed
            /\ ~ev'.sent
            /\ last_global_payload' = last_global_payload
       /\ (/\ dpc \in {"top", "poll"}
           /\ dev_ev'.op = "polled"
           /\ dev_obs = Some(<<dev_ev'.host[1], dev_ev'.data[1]>>)) =>
            /\ ~dev_ev'.sent
            /\ dpc' = "sleep"
            /\ last_game_name' = last_game_name]_vars

\* A poll reads again the state document that made the previous poll publish
\* a title, and nothing is delivered.
C3_Witness ==
    /\ dev_ev.op = "polled"
    /\ dev_ev.prev_obs = Some(<<dev_ev.host[1], dev_ev.data[1]>>)
    /\ dev_ev.game_name # None
    /\ dev_ev.game_name = dev_ev.prev_name
    /\ ~dev_ev.sent

\* The step removed a window: none of the four per-window maps holds it, and
\* the global payload is what it was.
RemovalFrame ==
    ev.op = "closed" =>
      /\ ev.hwnd \notin TrackedKeys
      /\ ev.hwnd \notin DOMAIN last_sent_titles
      /\ ev.hwnd \notin DOMAIN hwnd_emulator
      /\ ev.hwnd \notin DOMAIN last_sent_payload
      /\ last_global_payload = ev.glob

\* The step is the first look, after a removal, at a window that stayed
\* tracked, and its title resolves to the payload the removed window
\* published last.
SameAsRemoved ==
    /\ ev.op = "changed"
    /\ ev.gone # None
    /\ ev.payload = ev.gone

\* C4 as stated: a removal drops the window's entries and leaves the global
\* payload alone, and a window that stayed tracked never republishes the
\* payload the removed window published last.
C4_Original ==
    /\ RemovalFrame
    /\ SameAsRemoved => ~ev.sent

\* C4: a removal drops the window's entries and leaves the global payload
\* alone; a window that stayed tracked does not republish the removed
\* window's last payload as long as that payload is still the global last
\* payload (once another payload has been delivered since, it republishes).
C4_RemovalKeepsGlobal ==
    /\ RemovalFrame
    /\ (SameAsRemoved /\ ev.glob = ev.gone) => ~ev.sent

\* After a removal, a window that never published the removed window's last
\* payload resolves to it while it is the global last payload: not delivered.
C4_Witness ==
    /\ SameAsRemoved
    /\ ev.glob = ev.gone
    /\ ev.own # ev.payload
    /\ ~ev.sent

\* The enumeration is about to call back for a window that matches the
\* process table and is not tracked yet.
Discovering ==
    /\ sender = "window"
    /\ pc = "enum"
    /\ todo # <<>>
    /\ Matching(Head(todo)) # None
    /\ Head(todo) \notin TrackedKeys

\* The debounce lets the title of the window being discovered through.
DiscoveryAllowed ==
    LET hwnd == Head(todo)
        r == LoadedRom(build, Matching(hwnd)[1], win_title[hwnd])
    IN  /\ ~r.skip
        /\ ~Falsy(r.rom)
        /\ Some(CMDCOR_DATA \o r.rom[1]) # last_global_payload
        /\ Some(CMDCOR_DATA \o r.rom[1]) # DictGet(last_sent_payload, hwnd)

\* C5: a source first reported in a cycle is resolved in that cycle and, when
\* the debounce allows it, published in that cycle: the callback that
\* discovers a window tracks it and hands its payload over in the same step,
\* and the watcher's step after the detection of a device is the poll of its
\* state (never the sleep), which hands over a resolved name that is new. A
\* Ctrl-C that stops the sender is no step of a cycle.
C5_ResolvedInSameCycle ==
    [][/\ (Discovering /\ ev'.op # "stopped") =>
            /\ Head(todo) \in TrackedKeys'
            /\ ev'.op = "new"
            /\ ev'.hwnd = Head(todo)
            /\ DiscoveryAllowed => (ev'.sent /\ handed'.hwnd = Head(todo))
       /\ (dev_ev.op = "detected" /\ ~seen'.read /\ dev_ev'.op # "stopped") =>
            /\ dev_ev'.op \in {"polled", "lost"}
            /\ (/\ dev_ev'.op = "polled"
                /\ ~Falsy(dev_ev'.game_name)
                /\ dev_ev'.game_name # last_game_name) => dev_ev'.sent]_vars

\* The poll that follows a detection, before any sleep, resolves a name and
\* hands it over.
C5_Witness ==
    /\ dev_ev.op = "polled"
    /\ dev_ev.fresh
    /\ dev_ev.game_name # None
    /\ dev_ev.sent

\* hwnd is a visible top-level window of a process of the table.
Reported(hwnd) ==
    /\ hwnd \in win_exists
    /\ hwnd \in win_visible
    /\ win_proc[hwnd] \in DOMAIN PROCESS_TO_EMU

\* The sweep of a cycle is over.
SweepDone == sender = "window" /\ pc = "sweep" /\ todo = <<>>

\* C6 as stated: a cycle leaves no window tracked that is not a visible
\* top-level window of a matching process, and nothing is delivered for a
\* window that is not one.
C6_Original ==
    /\ SweepDone => \A hwnd \in TrackedKeys : Reported(hwnd)
    /\ ev.sent => Reported(ev.hwnd)

\* C6: a tracked window is removed in the first cycle whose sweep finds that
\* its handle is no window any more (IsWindow is false), and nothing is
\* delivered for such a handle; a window that is only hidden, or whose handle
\* went to another process, stays tracked and its title changes still publish.
C6_RemovedWhenDestroyed ==
    /\ SweepDone => \A hwnd \in TrackedKeys : hwnd \in win_exists
    /\ ev.op = "closed" => ev.hwnd \notin win_exists /\ ev.hwnd \notin TrackedKeys
    /\ ev.sent => ev.hwnd \in win_exists

\* The sweep removes a destroyed window that had published.
C6_Witness ==
    /\ ev.op = "closed"
    /\ ev.own # None
    /\ ev.hwnd \notin TrackedKeys

\* The kinds that have a transient filter.
FilteredKinds == {"duckstation", "pcsx2", "dolphin"}

\* The lowercase form of title contains a noise substring of the kind, by
\* the running copy's list.
NoiseIn(emulator, title) ==
    LET low == StrLower(title)
    IN  IF build = "files_pc"
        THEN is_transient_title(emulator, low)
        ELSE InlineTransient(emulator, low)

\* The step ran parse_and_send for a window of a filtered kind on a title
\* whose lowercase form contains a noise substring of that kind.
NoiseTitle ==
    /\ Parsed
    /\ ev.emu # None
    /\ ev.emu[1] \in FilteredKinds
    /\ NoiseIn(ev.emu[1], ev.title)

\* What a noise title leaves alone: no label, nothing delivered, the window's
\* last published payload and the global one as before.
NoiseKeepsPayloads ==
    /\ ev.rom = None
    /\ ~ev.sent
    /\ handed = ev.last
    /\ DictGet(last_sent_payload, ev.hwnd) = ev.own
    /\ last_global_payload = ev.glob

\* C7 as stated: a noise title yields no label and no publish, and leaves the
\* window's last label (last_sent_titles), its last published payload and the
\* global last published payload unchanged.
C7_Original ==
    NoiseTitle =>
      /\ NoiseKeepsPayloads
      /\ DictGet(last_sent_titles, ev.hwnd) = ev.sent_title

\* C7: a noise title yields no label and no publish, also when it starts with
\* the menu prefix, and leaves the window's last published payload and the
\* global last published payload unchanged; the window's entries in
\* tracked_windows and last_sent_titles are set to the noise title.
C7_NoiseYieldsNothing ==
    NoiseTitle =>
      /\ NoiseKeepsPayloads
      /\ DictGet(last_sent_titles, ev.hwnd) = Some(ev.title)
      /\ ODGet(tracked_windows, ev.hwnd) = Some(ev.title)

\* A window that published a game shows a noise title that starts with the
\* menu prefix: no label, nothing delivered.
C7_Witness ==
    /\ NoiseTitle
    /\ StartsWith(StrLower(ev.title), ev.emu[1])
    /\ ev.own # None
    /\ last_global_payload = ev.own
    /\ ev.rom = None
    /\ ~ev.sent

\* The menu sentinel of each kind.
MenuLabel(emulator) ==
    CASE emulator = "mame" -> "MAME-MENU"
      [] emulator = "flycast" -> "DCEMU-MENU"
      [] emulator = "duckstation" -> "PS1EMU-MENU"
      [] emulator = "teknoparrot" -> "TPEMU-MENU"
      [] emulator = "pcsx2" -> "PS2EMU-MENU"
      [] emulator = "dolphin" -> "DOLPHIN-MENU"

\* The step ran parse_and_send on a title whose lowercase form starts with
\* the kind's own name and contains none of the kind's noise substrings.
MenuTitle ==
    /\ Parsed
    /\ ev.emu # None
    /\ StartsWith(StrLower(ev.title), ev.emu[1])
    /\ ~NoiseIn(ev.emu[1], ev.title)

\* C8 as stated: for every kind, a title that starts with the menu prefix and
\* contains no noise substring resolves to the kind's menu sentinel.
C8_Original == MenuTitle => ev.rom = Some(MenuLabel(ev.emu[1]))

\* C8: a title that starts with the menu prefix and contains no noise
\* substring resolves to the menu sentinel for DuckStation, TeknoParrot, PCSX2
\* and Dolphin, and for Flycast when the title holds no "- " marker; for MAME
\* the prefix plays no part, the sentinel stands for the bracket text
\* "___empty" only.
C8_MenuSentinel ==
    MenuTitle =>
      /\ ev.emu[1] \in {"duckstation", "teknoparrot", "pcsx2", "dolphin"}
           => ev.rom = Some(MenuLabel(ev.emu[1]))
      /\ (ev.emu[1] = "flycast" /\ ~Contains(ev.title, "- "))
           => ev.rom = Some(MenuLabel("flycast"))
      /\ (ev.emu[1] = "mame" /\ ev.rom = Some(MenuLabel("mame")))
           => Contains(ev.title, "[___empty]")

\* A menu title that is more than the bare prefix, written with capitals,
\* resolves to the sentinel and is delivered.
C8_Witness ==
    /\ MenuTitle
    /\ ev.emu[1] \in {"duckstation", "teknoparrot", "pcsx2", "dolphin"}
    /\ StrLower(ev.title) # ev.emu[1]
    /\ ev.title # StrLower(ev.title)
    /\ ev.rom = Some(MenuLabel(ev.emu[1]))
    /\ ev.sent

\* The text strictly between the first "[" of title and the first "]" that
\* follows it, or None when there is no such pair.
BracketText(title) ==
    LET opens == {i \in 1..Len(title) : Char(title, i) = "["}
    IN  IF opens = {} THEN None
        ELSE LET open == SetMin(opens)
                 closes == {j \in (open + 1)..Len(title) : Char(title, j) = "]"}
             IN  IF closes = {} THEN None
                 ELSE Some(SubSeq(title, open + 1, SetMin(closes) - 1))

\* The step ran parse_and_send for a MAME window.
MameTitle == Parsed /\ ev.emu = Some("mame")

\* C9: for a MAME window the label is the text strictly between the first
\* "[" of the title and the first "]" after it (no label without such a
\* pair), and "MAME-MENU" when that text is "___empty": the literal
\* "___empty" is never published.
C9_BracketText ==
    MameTitle =>
      LET text == BracketText(ev.title)
      IN  /\ ev.rom = IF text = Some("___empty") THEN Some("MAME-MENU") ELSE text
          /\ ev.payload # Some(CMDCOR_DATA \o "___empty")
          /\ ev.sent => last_global_payload # Some(CMDCOR_DATA \o "___empty")

\* A MAME title with "___empty" in its brackets is delivered as the menu.
C9_Witness ==
    /\ MameTitle
    /\ BracketText(ev.title) = Some("___empty")
    /\ ev.payload = Some(CMDCOR_DATA \o "MAME-MENU")
    /\ ev.sent

\* The trimmed text after the first "- " of title, or None when title holds
\* no "- ".
AfterMarker(title) ==
    LET at == {i \in 1..(Len(title) - 1) : SubSeq(title, i, i + 1) = "- "}
    IN  IF at = {} THEN None
        ELSE Some(StrStrip(SubSeq(title, SetMin(at) + 2, Len(title))))

\* The step ran parse_and_send for a Flycast window.
FlycastTitle == Parsed /\ ev.emu = Some("flycast")

\* C10 as stated: for a Flycast window the label is the trimmed text after
\* the first "- " of the title, and "DCEMU-MENU" whenever the title holds no
\* "- ".
C10_Original ==
    FlycastTitle =>
      ev.rom = IF AfterMarker(ev.title) = None
               THEN Some("DCEMU-MENU")
               ELSE AfterMarker(ev.title)

\* C10: for a Flycast window whose title, lowercased and trimmed, starts with
\* "flycast", the label is the trimmed text after the first "- " of the
\* title, and "DCEMU-MENU" when the title holds no "- "; for every other title
\* of a Flycast window the label is the whole title, trimmed.
C10_FlycastLabel ==
    FlycastTitle =>
      ev.rom = IF StartsWith(StrStrip(StrLower(ev.title)), "flycast")
               THEN (IF AfterMarker(ev.title) = None
                     THEN Some("DCEMU-MENU")
                     ELSE AfterMarker(ev.title))
               ELSE Some(StrStrip(ev.title))

\* A Flycast title with the prefix and a marker is delivered as the text
\* after the marker.
C10_Witness ==
    /\ FlycastTitle
    /\ StartsWith(StrStrip(StrLower(ev.title)), "flycast")
    /\ AfterMarker(ev.title) # None
    /\ ~Falsy(ev.rom)
    /\ ev.rom = AfterMarker(ev.title)
    /\ ev.sent

\* Either sender, the window sender on the titles that exercise parsing.
SpecLabels == (InitTitles \/ InitDev) /\ [][NextAll]_vars

\* p is the fixed prefix followed by a non-empty label.
PrefixedLabel(p) ==
    /\ p # None
    /\ Len(p[1]) > Len(CMDCOR_DATA)
    /\ p[1] = "CMDCOR§PARAM§" \o SubSeq(p[1], Len(CMDCOR_DATA) + 1, Len(p[1]))

\* C11: every payload handed to the publisher, by either sender, is the
\* prefix "CMDCOR§PARAM§" followed by a non-empty label (the resolved one),
\* and an extraction that yields nothing or the empty string hands nothing
\* over.
C11_PrefixAndLabel ==
    /\ handed.payload # None => PrefixedLabel(handed.payload)
    /\ ev.sent =>
         /\ ~Falsy(ev.rom)
         /\ ev.payload = Some("CMDCOR§PARAM§" \o ev.rom[1])
         /\ handed.payload = ev.payload
    /\ dev_ev.sent =>
         /\ ~Falsy(dev_ev.game_name)
         /\ dev_ev.payload = Some("CMDCOR§PARAM§" \o dev_ev.game_name[1])
         /\ handed.payload = dev_ev.payload
    /\ (Parsed /\ Falsy(ev.rom)) => (~ev.sent /\ handed = ev.last)
    /\ (dev_ev.op = "polled" /\ Falsy(dev_ev.game_name)) => ~dev_ev.sent

\* A title whose extraction yields the empty string: nothing is delivered.
C11_Witness ==
    /\ Parsed
    /\ ev.rom = Some("")
    /\ ev.payload = None
    /\ ~ev.sent

\* The window's three entries and the global payload hold what the step's
\* parse resolved.
WindowStateNew ==
    /\ last_global_payload = ev.payload
    /\ DictGet(last_sent_payload, ev.hwnd) = ev.payload
    /\ DictGet(last_sent_titles, ev.hwnd) = Some(ev.title)

\* They hold what they held before the step.
WindowStateOld ==
    /\ last_global_payload = ev.glob
    /\ DictGet(last_sent_payload, ev.hwnd) = ev.own
    /\ DictGet(last_sent_titles, ev.hwnd) = ev.sent_title

\* The claim as stated: once the gate let a payload through, the records hold
\* the new value whatever became of the delivery, and already while the
\* publisher is at work.
C12_Original ==
    /\ ev.sent => WindowStateNew
    /\ (sender = "device" /\ dpc = "publish") => last_game_name = dev_ev.game_name

\* C12: the records are set after the publisher's call returned, not before
\* it. While update_tty2rpi_marquee runs, last_game_name still holds the old
\* name; it holds the new one once the call returned, successful or not. The
\* window's records hold the new values after a call that returned, and the
\* old ones when the call was interrupted, which stops the sender.
C12_SetAfterDelivery ==
    /\ (ev.sent /\ ~ev.intr) => WindowStateNew
    /\ (ev.sent /\ ev.intr) => (WindowStateOld /\ pc = "stopped")
    /\ (sender = "device" /\ (dpc = "publish" \/ dev_ev.op = "interrupted")) =>
         /\ dev_ev.sent
         /\ last_game_name = dev_ev.prev_name
         /\ last_game_name # dev_ev.game_name
    /\ dev_ev.op = "returned" =>
         /\ dev_ev.sent
         /\ last_game_name = dev_ev.game_name

\* The publisher has opened its file for a new name while last_game_name still
\* holds the name published before.
C12_Witness ==
    /\ sender = "device"
    /\ dpc = "publish"
    /\ pub.pc = "opened"
    /\ dev_ev.prev_name # None
    /\ last_game_name = dev_ev.prev_name
    /\ dev_ev.game_name # dev_ev.prev_name

\* C13: a failed delivery does not roll the debounce back. After a delivery
\* of payload P that failed, the window's last payload and the global last
\* payload hold P, and last_game_name holds P's name; and an observation that
\* resolves to P while the last hand-off is that failed one hands nothing over.
C13_NoRollback ==
    /\ (ev.sent /\ ~ev.ok /\ ~ev.intr) =>
         /\ last_global_payload = ev.payload
         /\ DictGet(last_sent_payload, ev.hwnd) = ev.payload
    /\ (dev_ev.op = "returned" /\ ~dev_ev.ok) => last_game_name = dev_ev.game_name
    /\ (Parsed /\ ev.last.out = "fail" /\ ev.payload = ev.last.payload) => ~ev.sent
    /\ (/\ dev_ev.op = "polled"
        /\ ~Falsy(dev_ev.game_name)
        /\ dev_ev.last.out = "fail"
        /\ dev_ev.last.payload = Some(CMDCOR_DATA \o dev_ev.game_name[1])) =>
         ~dev_ev.sent

\* A window's title resolves to the payload whose delivery failed last, and
\* nothing is handed over.
C13_Witness ==
    /\ Parsed
    /\ ev.last.out = "fail"
    /\ ev.payload # None
    /\ ev.payload = ev.last.payload
    /\ ~ev.sent

\* What a reader of the channel file may find while a write of pub.data is
\* under way: the file as the write found it, or the whole new payload.
PreviousOrNew(content) == content \in {pub.before, Some(pub.data)}

\* A whole payload, or no file at all (nothing was ever written).
WholePayload(content) == content = None \/ PrefixedLabel(content)

\* C14: with the local publisher of the Raspberry Pi's device sender, whatever
\* a reader reads from /dev/shm/tty2rpi.socket, at any point of a write, is
\* the whole previous payload or the whole new one, never an empty or a
\* partial text.
C14_LocalWriteAtomic ==
    (sender = "device" /\ build = "files_rpi" /\ seen.read) =>
      /\ WholePayload(seen.content)
      /\ dpc = "publish" => PreviousOrNew(seen.content)
      /\ (dpc = "publish" /\ pub.out # "ok") => seen.content = pub.before

\* The reader reads the previous payload while the new one sits complete in
\* the temporary file, not yet renamed.
C14_Witness ==
    /\ sender = "device"
    /\ build = "files_rpi"
    /\ seen.read
    /\ dpc = "publish"
    /\ pub.pc = "written"
    /\ tmp = Some(pub.data)
    /\ pub.before # None
    /\ seen.content = pub.before
    /\ pub.before # Some(pub.data)

\* C15: with the SFTP publisher of the PC senders, whatever a reader reads
\* from the channel file, at any point of a write, is the whole previous
\* payload or the whole new one, never an empty or a partial text.
C15_SftpWriteAtomic ==
    (sender = "device" /\ build = "files_pc" /\ seen.read) =>
      /\ WholePayload(seen.content)
      /\ dpc = "publish" => PreviousOrNew(seen.content)

\* The step's poll got a state document (dev_ev still describes that poll
\* while its payload is being delivered).
PolledDoc == dev_ev.data # None

\* The document reports no mode: no "currentMode" field, or an empty one.
NoReportedMode(data) == Falsy(DictGet(data, "currentMode"))

\* The id the document reports: "game_id", else "gameID", else nothing.
ReportedId(data) ==
    IF ~Falsy(DictGet(data, "game_id")) THEN DictGet(data, "game_id")[1]
    ELSE IF ~Falsy(DictGet(data, "gameID")) THEN DictGet(data, "gameID")[1]
    ELSE ""

\* The claim as stated: the mode is the reported mode as the document spells
\* it.
C16_Original ==
    (PolledDoc /\ ~NoReportedMode(dev_ev.data[1])) =>
      dev_ev.mode = DictGet(dev_ev.data[1], "currentMode")[1]

\* C16: the mode of a poll is the document's reported mode in upper case when
\* the field is present and not empty; otherwise "GC" when the endpoint polled
\* is the GC endpoint; otherwise unknown ("").
C16_ModeDerivation ==
    PolledDoc =>
      IF ~NoReportedMode(dev_ev.data[1])
      THEN dev_ev.mode = StrUpper(DictGet(dev_ev.data[1], "currentMode")[1])
      ELSE IF dev_ev.host = Some(MCP_GC_IP)
           THEN dev_ev.mode = "GC"
           ELSE dev_ev.mode = ""

\* A document polled from the GC endpoint reports a mode of its own, which is
\* taken (in upper case) in place of GC.
C16_Witness ==
    /\ dev_ev.op = "polled"
    /\ dev_ev.host = Some(MCP_GC_IP)
    /\ DictGet(dev_ev.data[1], "currentMode") = Some("ps1")
    /\ dev_ev.mode = "PS1"

\* The title the game table holds for the reported id, by the raw id and
\* then by the normalized one.
TableTitle(data) ==
    IF ~Falsy(DbTitle(GAME_DB, ReportedId(data)))
    THEN DbTitle(GAME_DB, ReportedId(data))
    ELSE DbTitle(GAME_DB, Norm(Some(ReportedId(data))))

EstablishedModes == {Some("PS1"), Some("PS2"), Some("GC")}

\* The normalized default-card token configured for an established mode.
TokenOf(m) ==
    CASE m = Some("PS1") -> Norm(Some(default_ps1_mc))
      [] m = Some("PS2") -> Norm(Some(default_ps2_mc))
      [] m = Some("GC") -> Norm(Some(default_gc_mc))

\* The claim as stated: a poll without a mode leaves the established mode in
\* place and resolves the label with it.
C17_Original ==
    (/\ PolledDoc
     /\ NoReportedMode(dev_ev.data[1])
     /\ dev_ev.prev_mode \in EstablishedModes) =>
      /\ last_mode = dev_ev.prev_mode
      /\ (/\ TokenOf(dev_ev.prev_mode) # ""
          /\ Norm(Some(ReportedId(dev_ev.data[1]))) = TokenOf(dev_ev.prev_mode)) =>
           dev_ev.game_name = dev_ev.prev_mode

\* C17: the mode is derived anew by every poll and nothing of the recorded
\* mode enters label resolution. A poll without a reported mode from the GC
\* endpoint has mode GC, which becomes the recorded mode whatever was recorded.
\* Such a poll from the other endpoint has no mode: the recorded mode stays
\* what it was, but no default-card token is chosen, and the label is the
\* game table's title for the id or none.
C17_ModePerPoll ==
    (PolledDoc /\ NoReportedMode(dev_ev.data[1])) =>
      IF dev_ev.host = Some(MCP_GC_IP)
      THEN /\ dev_ev.mode = "GC"
           /\ last_mode = Some("GC")
           /\ dev_ev.hook = (dev_ev.prev_mode # Some("GC"))
      ELSE /\ dev_ev.mode = ""
           /\ ~dev_ev.hook
           /\ last_mode = dev_ev.prev_mode
           /\ dev_ev.game_name = TableTitle(dev_ev.data[1])

\* With PS2 recorded, a poll without a mode reports the PS2 default card: the
\* recorded mode stays PS2 and the poll resolves no label.
C17_Witness ==
    /\ dev_ev.op = "polled"
    /\ dev_ev.prev_mode = Some("PS2")
    /\ dev_ev.host = Some(MCP2_IP)
    /\ NoReportedMode(dev_ev.data[1])
    /\ Norm(Some(ReportedId(dev_ev.data[1]))) = default_ps2_mc_norm
    /\ last_mode = Some("PS2")
    /\ dev_ev.game_name = None

\* The mode a poll derived, as a recorded mode: none for the unknown mode.
DerivedMode == IF dev_ev.mode = "" THEN None ELSE Some(dev_ev.mode)

\* The claim as stated: the hook runs, and the derived mode is recorded,
\* whenever the derived mode differs from the recorded one.
C18_Original ==
    PolledDoc =>
      IF DerivedMode # dev_ev.prev_mode
      THEN dev_ev.hook /\ last_mode = DerivedMode
      ELSE ~dev_ev.hook /\ last_mode = dev_ev.prev_mode

\* C18: on a poll whose derived mode is known and differs from the recorded
\* mode, the mode hook runs once and the derived mode is recorded; on every
\* other poll (the derived mode is the recorded one, or it is unknown) the
\* hook does not run and the recorded mode stays what it was.
C18_HookOnKnownChange ==
    PolledDoc =>
      IF dev_ev.mode # "" /\ Some(dev_ev.mode) # dev_ev.prev_mode
      THEN dev_ev.hook /\ last_mode = Some(dev_ev.mode)
      ELSE ~dev_ev.hook /\ last_mode = dev_ev.prev_mode

\* The connected device goes from PS2 to PS1: the hook runs and PS1 is
\* recorded.
C18_Witness ==
    /\ dev_ev.op = "polled"
    /\ dev_ev.prev_mode = Some("PS2")
    /\ dev_ev.mode = "PS1"
    /\ dev_ev.hook
    /\ last_mode = Some("PS1")

\* The configured default-card token of the poll's mode, normalized ("" when
\* none is configured or the mode has none).
PollToken ==
    IF Some(dev_ev.mode) \in EstablishedModes THEN TokenOf(Some(dev_ev.mode)) ELSE ""

\* C19: when the mode of a poll is PS1, PS2 or GC, a default-card token is
\* configured for that mode, and the reported id, trimmed and in upper case,
\* equals the normalized token, the label is the mode's name, whatever the
\* game table holds for that id.
C19_DefaultCardIsMode ==
    (/\ PolledDoc
     /\ PollToken # ""
     /\ StrUpper(StrStrip(ReportedId(dev_ev.data[1]))) = PollToken) =>
      dev_ev.game_name = Some(dev_ev.mode)

\* In mode PS2 the document reports "MemoryCard1", for which the game table
\* has a title of its own: the label is "PS2".
C19_Witness ==
    /\ dev_ev.op = "polled"
    /\ dev_ev.mode = "PS2"
    /\ ReportedId(dev_ev.data[1]) = "MemoryCard1"
    /\ PollToken = "MEMORYCARD1"
    /\ DbTitle(GAME_DB, "MemoryCard1") = Some("Memory Card Manager")
    /\ dev_ev.game_name = Some("PS2")

\* The configured default-card tokens, normalized.
ConfiguredTokens == {TokenOf(m) : m \in EstablishedModes} \ {""}

\* C20: when the mode of a poll is unknown and the normalized reported id
\* equals a configured default-card token, the label is "EMU_MENU".
C20_UnknownModeSentinel ==
    (/\ PolledDoc
     /\ dev_ev.mode = ""
     /\ Norm(Some(ReportedId(dev_ev.data[1]))) \in ConfiguredTokens) =>
      dev_ev.game_name = Some("EMU_MENU")

\* The document with its id moved to the other of the two keys, for a
\* document that carries one of them.
OtherKey(data) ==
    IF DOMAIN data = {"game_id"} THEN [gameID |-> data.game_id]
    ELSE IF DOMAIN data = {"gameID"} THEN [game_id |-> data.gameID]
    ELSE data

\* The reported id, trimmed and in upper case.
CanonicalId(data) == StrUpper(StrStrip(ReportedId(data)))

\* The mode's default card is what the poll reported.
DefaultCardReported == PollToken # "" /\ CanonicalId(dev_ev.data[1]) = PollToken

\* The claim as stated: the label is that of the trimmed, upper-case id,
\* whatever the game table holds.
C21_Original ==
    PolledDoc =>
      dev_ev.game_name =
          GameName(GAME_DB, dev_ev.mode, [game_id |-> CanonicalId(dev_ev.data[1])])

\* C21: a document carrying its id under "gameID" resolves to the label of
\* the document carrying it under "game_id", and the other way round. The
\* default-card comparison takes the id trimmed and in upper case. The game
\* table is asked for the id as reported first: only an id for which it has
\* no titled entry resolves to the label of the trimmed, upper-case id.
C21_KeysAndNormalizedIds ==
    PolledDoc =>
      /\ dev_ev.game_name = GameName(GAME_DB, dev_ev.mode, OtherKey(dev_ev.data[1]))
      /\ DefaultCardReported => dev_ev.game_name = Some(dev_ev.mode)
      /\ Falsy(DbTitle(GAME_DB, ReportedId(dev_ev.data[1]))) =>
           dev_ev.game_name =
               GameName(GAME_DB, dev_ev.mode, [game_id |-> CanonicalId(dev_ev.data[1])])

\* An id reported under "gameID", in lower case and with a trailing blank,
\* resolves to the title the table holds for the upper-case id.
C21_Witness ==
    /\ dev_ev.op = "polled"
    /\ dev_ev.data = Some([gameID |-> "scus-12345 "])
    /\ dev_ev.game_name = Some("Example Game")

\* The title field of the loaded table's entry for a key; none without entry.
EntryTitle(key) == IF key \in DOMAIN GAME_DB THEN Some(GAME_DB[key][1]) ELSE None

\* The entry the lookup falls on: the one of the id as reported, failing that
\* the one of the trimmed, upper-case id.
FoundTitle(data) ==
    IF ReportedId(data) \in DOMAIN GAME_DB THEN EntryTitle(ReportedId(data))
    ELSE EntryTitle(CanonicalId(data))

\* The poll is the watcher's last step and reported something else than the
\* mode's default card.
PolledGame == dev_ev.op = "polled" /\ ~DefaultCardReported

\* The claim as stated: an id that is a key of the table has that entry's
\* title for label and is published when the label is new.
C22_Original ==
    (/\ PolledGame
     /\ FoundTitle(dev_ev.data[1]) # None) =>
      /\ dev_ev.game_name = FoundTitle(dev_ev.data[1])
      /\ dev_ev.game_name # dev_ev.prev_name => dev_ev.sent

\* C22: when the reported id is not the mode's default card, the label is the
\* title of the table's entry for the id as reported, or, when that entry is
\* missing or has an empty title, of the entry for the trimmed, upper-case id;
\* the entry's serial plays no part. A title that is not empty and is not the
\* name published last is handed over, once: the poll that reads the same
\* document again hands nothing over. An empty title is no label and is never
\* handed over.
C22_TableTitle ==
    PolledGame =>
      /\ dev_ev.game_name =
           IF ~Falsy(EntryTitle(ReportedId(dev_ev.data[1])))
           THEN EntryTitle(ReportedId(dev_ev.data[1]))
           ELSE EntryTitle(CanonicalId(dev_ev.data[1]))
      /\ dev_ev.sent = (~Falsy(dev_ev.game_name) /\ dev_ev.game_name # dev_ev.prev_name)
      /\ dev_ev.prev_obs = Some(<<dev_ev.host[1], dev_ev.data[1]>>) => ~dev_ev.sent

\* The id "SCUS-12345" is found in the table, whose entry has a serial, and
\* its title "Example Game" is handed over.
C22_Witness ==
    /\ dev_ev.op = "polled"
    /\ dev_ev.data = Some([game_id |-> "SCUS-12345"])
    /\ EntryTitle("SCUS-12345") = Some("Example Game")
    /\ GAME_DB["SCUS-12345"][2] = "SCUS-12345"
    /\ dev_ev.game_name = Some("Example Game")
    /\ dev_ev.sent
    /\ handed.payload = Some("CMDCOR§PARAM§Example Game")

\* A state document polled from host is a miss: its id is not the default
\* card of the poll's mode and the table has no entry for it, as reported or
\* trimmed and in upper case.
IsMiss(host, data) ==
    LET m == Some(DeviceMode(host, data))
        token == IF m \in EstablishedModes THEN TokenOf(m) ELSE ""
    IN  /\ ~(token # "" /\ CanonicalId(data) = token)
        /\ ReportedId(data) \notin DOMAIN GAME_DB
        /\ CanonicalId(data) \notin DOMAIN GAME_DB

\* C23: a poll whose id is neither the mode's default card nor, as reported
\* or normalized, a key of the game table resolves no label, hands nothing
\* over and leaves last_game_name as it was; and the poll after such a miss,
\* when it resolves to the name last_game_name holds, hands nothing over.
C23_MissLeavesLabel ==
    /\ (dev_ev.op = "polled" /\ IsMiss(dev_ev.host[1], dev_ev.data[1])) =>
         /\ dev_ev.game_name = None
         /\ ~dev_ev.sent
         /\ last_game_name = dev_ev.prev_name
         /\ handed = dev_ev.last
         /\ dpc = "sleep"
    /\ (/\ dev_ev.op = "polled"
        /\ dev_ev.prev_obs # None
        /\ IsMiss(dev_ev.prev_obs[1][1], dev_ev.prev_obs[1][2])
        /\ dev_ev.game_name = dev_ev.prev_name) =>
         ~dev_ev.sent

\* After a miss, the device reports again the game whose title was published
\* before the miss: nothing is handed over.
C23_Witness ==
    /\ dev_ev.op = "polled"
    /\ dev_ev.prev_obs # None
    /\ IsMiss(dev_ev.prev_obs[1][1], dev_ev.prev_obs[1][2])
    /\ dev_ev.game_name = Some("Example Game")
    /\ dev_ev.prev_name = Some("Example Game")
    /\ handed.payload = Some("CMDCOR§PARAM§Example Game")
    /\ ~dev_ev.sent

\* The (title, serial) load_game_db takes from a row.
RowEntry(row) ==
    <<IF Falsy(Cell(row, "title")) THEN "" ELSE Cell(row, "title")[1],
      IF Falsy(Cell(row, "serial")) THEN "" ELSE Cell(row, "serial")[1]>>

\* The keys a row gives: its non-empty cell values, as they are and trimmed
\* and in upper case.
RowKeys(row) ==
    UNION {{row[i][2], StrUpper(StrStrip(row[i][2]))} :
             i \in {j \in 1..Len(row) : row[j][2] # ""}}

\* The claim as stated, for the table db loaded from rows: every key of a row
\* maps to that row's title and serial.
EveryRowItsKeys(rows, db) ==
    \A i \in 1..Len(rows) : \A k \in RowKeys(rows[i]) :
        k \in DOMAIN db /\ db[k] = RowEntry(rows[i])

\* Every key maps to the title and serial of the first row that gives it.
FirstRowItsKeys(rows, db) ==
    /\ DOMAIN db = UNION {RowKeys(rows[i]) : i \in 1..Len(rows)}
    /\ \A i \in 1..Len(rows) : \A k \in RowKeys(rows[i]) :
         (\A j \in 1..(i - 1) : k \notin RowKeys(rows[j])) =>
           db[k] = RowEntry(rows[i])

\* The tables loaded from the files for which each statement holds.
EveryRowTables ==
    {load_game_db(csv) : csv \in {c \in CsvFiles \ {None} :
                                    EveryRowItsKeys(c[1], load_game_db(c))}}
FirstRowTables ==
    {load_game_db(csv) : csv \in {c \in CsvFiles \ {None} :
                                    FirstRowItsKeys(c[1], load_game_db(c))}}

C24_Original ==
    (sender = "device" /\ GAME_DB # <<>>) => GAME_DB \in EveryRowTables

\* C24: the loaded game table has for keys exactly the non-empty cell values
\* of the file's rows, as they are and normalized, and each key maps to the
\* (title, serial) of the first row, in file order, that gives the key: a row
\* whose value, raw or normalized, is a key given by an earlier row does not
\* replace that key's entry.
C24_FirstRowWins ==
    (sender = "device" /\ GAME_DB # <<>>) => GAME_DB \in FirstRowTables

\* The table has the ids "GALE01" and "gale01" from two rows; "GALE01", which
\* both rows give as a key, resolves to the first row's title.
C24_Witness ==
    /\ dev_ev.op = "polled"
    /\ "gale01" \in DOMAIN GAME_DB
    /\ GAME_DB["gale01"][1] = "Luigi's Mansion (demo)"
    /\ GAME_DB["GALE01"][1] = "Luigi's Mansion"
    /\ ReportedId(dev_ev.data[1]) = "GALE01"
    /\ dev_ev.game_name = Some("Luigi's Mansion")

\* A step of the watcher's loop with no device connected before it or after
\* it: the failed poll, the sleeps and the probes up to the next detection.
Disconnected == current_ip = None \/ current_ip' = None

\* The first poll after a detection, in the cycle of the detection.
FirstPoll == dpc = "poll" /\ dev_ev'.op = "polled"

\* C25: a poll that fails hands nothing over and leaves last_game_name as it
\* was, as does every step of the loop until a device is detected again; and
\* the first poll after the detection, when it resolves to the name
\* last_game_name holds, hands nothing over.
C25_LossKeepsLabel ==
    [][/\ (dpc \in {"top", "poll"} /\ dev_ev'.op = "lost") =>
            /\ current_ip' = None
            /\ last_game_name' = last_game_name
            /\ handed' = handed
            /\ dpc' = "sleep"
       /\ Disconnected => (last_game_name' = last_game_name /\ handed' = handed)
       /\ (FirstPoll /\ dev_ev'.game_name = last_game_name) =>
            /\ ~dev_ev'.sent
            /\ handed' = handed
            /\ last_game_name' = last_game_name
            /\ dpc' = "sleep"]_vars

\* The device was lost after the title of a game was published; when it is
\* detected again, its first poll resolves to that title and nothing is
\* handed over.
C25_Witness ==
    /\ dev_ev.op = "polled"
    /\ dev_ev.fresh
    /\ dev_ev.prev_obs = None
    /\ dev_ev.prev_name = Some("Example Game")
    /\ dev_ev.game_name = Some("Example Game")
    /\ handed.payload = Some("CMDCOR§PARAM§Example Game")
    /\ ~dev_ev.sent
    /\ dpc = "sleep"

\* The claim as stated, at the failed poll: the recorded mode is the one
\* recorded before the poll.
C26_Original == dev_ev.op = "lost" => last_mode = dev_ev.prev_mode

\* C26: the failed poll clears the recorded mode, and so does the detection;
\* the first poll after a detection finds no recorded mode, so it takes every
\* known mode for a mode change and records it, and records nothing for the
\* unknown mode.
C26_LossClearsMode ==
    /\ dev_ev.op \in {"lost", "detected"} => last_mode = None
    /\ (dev_ev.op = "polled" /\ dev_ev.fresh) =>
         /\ dev_ev.prev_mode = None
         /\ dev_ev.hook = (dev_ev.mode # "")
         /\ last_mode = DerivedMode

\* The device was lost after its PS2 menu was published and is detected
\* again in PS2 mode: the first poll takes the mode for changed, and hands
\* nothing over.
C26_Witness ==
    /\ dev_ev.op = "polled"
    /\ dev_ev.fresh
    /\ dev_ev.prev_name = Some("PS2")
    /\ dev_ev.mode = "PS2"
    /\ dev_ev.game_name = Some("PS2")
    /\ dev_ev.hook
    /\ last_mode = Some("PS2")
    /\ ~dev_ev.sent

\* No Ctrl-C has stopped the watcher.
NoStopSignal == dev_ev.op \notin {"stopped", "interrupted"}

\* The failed poll, and the probe of the endpoints.
PollFailed == dev_ev.op = "lost"
Probed == dev_ev.op \in {"nodevice", "detected"}

\* No request is left without an answer, whatever the answer is.
EndpointAnswers == dev_ev.op \in {"lost", "nodevice"} => dev_ev.answered

\* No request is left without a state: every probe finds a device and every
\* poll gets a state document that is not empty.
EndpointGivesState == dev_ev.op \notin {"lost", "nodevice"}

NoTable == load_game_db(None)

\* C28: with no Game_DB.csv the loaded table is empty and the watcher runs
\* as with any table; every poll whose id is not the default card of the
\* poll's mode then resolves no name, hands nothing over and leaves
\* last_game_name as it was.
C28_MissingTableAlwaysMisses ==
    /\ NoTable = <<>>
    /\ (sender = "device" /\ GAME_DB = NoTable /\ PolledGame) =>
         /\ dev_ev.game_name = None
         /\ ~dev_ev.sent
         /\ dev_ev.payload = None
         /\ handed = dev_ev.last
         /\ last_game_name = dev_ev.prev_name
         /\ dpc = "sleep"

\* With no table, the watcher polls a game id a second time; nothing was
\* handed over for it.
C28_Witness ==
    /\ GAME_DB = NoTable
    /\ dev_ev.op = "polled"
    /\ dev_ev.prev_obs # None
    /\ ReportedId(dev_ev.prev_obs[1][2]) = "SCUS-12345"
    /\ ReportedId(dev_ev.data[1]) = "SCUS-12345"
    /\ dev_ev.game_name = None
    /\ handed.payload = None
    /\ ~dev_ev.sent

\* The step in which a Ctrl-C ends the sender's loop.
WindowStops == sender = "window" /\ pc # "stopped" /\ pc' = "stopped"
WatcherStops == sender = "device" /\ dpc # "stopped" /\ dpc' = "stopped"

\* C29: a Ctrl-C ends the loop of either sender for good. The step that stops
\* the window sender leaves the debounce records (per window and global) as
\* they were; outside the publisher's call it leaves the tracked windows and
\* the last hand-off as they were too, and inside the call the tracked
\* windows hold what the cycle assigned before the call. The step that stops
\* the watcher leaves its table, device, name and mode, the files and the
\* handed payload as they were. Once stopped, a sender changes none of its
\* records and hands nothing over.
C29_StopLeavesState ==
    [][/\ WindowStops =>
            /\ UNCHANGED <<last_sent_titles, last_sent_payload, last_global_payload>>
            /\ ev'.op = "stopped" =>
                 UNCHANGED <<tracked_windows, hwnd_emulator, handed>>
            /\ ev'.op # "stopped" =>
                 /\ ev'.sent /\ ev'.intr
                 /\ tracked_windows' = ODSet(tracked_windows, ev'.hwnd, ev'.title)
       /\ WatcherStops =>
            /\ UNCHANGED <<dstate, fvars>>
            /\ handed'.payload = handed.payload
       /\ (sender = "window" /\ pc = "stopped") =>
            UNCHANGED <<progvars, handed>>
       /\ (sender = "device" /\ dpc = "stopped") =>
            UNCHANGED <<dstate, fvars, dpc, handed>>]_vars

\* The window sender was stopped in its sleep, after it had published the
\* label of a tracked window.
C29_Witness ==
    /\ sender = "window"
    /\ pc = "stopped"
    /\ ev.op = "stopped"
    /\ TrackedKeys # {}
    /\ last_global_payload # None
    /\ handed.out = "ok"

\* No window id has two entries in tracked_windows.
OneEntryPerWindow ==
    \A i, j \in 1..Len(tracked_windows) :
        tracked_windows[i].k = tracked_windows[j].k => i = j

\* C30: in every state of the window sender, tracked_windows has one entry
\* for a window id at most, hwnd_emulator has the keys of tracked_windows and
\* no others, and every key of last_sent_payload is a key of tracked_windows.
C30_MapsConsistent ==
    sender = "window" =>
      /\ OneEntryPerWindow
      /\ DOMAIN hwnd_emulator = TrackedKeys
      /\ DOMAIN last_sent_payload \subseteq TrackedKeys

\* Two windows are tracked with their kinds, and a payload was published for
\* one of them only.
C30_Witness ==
    /\ sender = "window"
    /\ Len(tracked_windows) = 2
    /\ DOMAIN hwnd_emulator = {1, 2}
    /\ DOMAIN last_sent_payload = {2}
    /\ pc = "sweep"

\* The step ran parse_and_send, which resolved a payload and held it back
\* as a duplicate.
Suppressed == ev'.op \in {"new", "changed"} /\ ev'.payload # None /\ ~ev'.sent

\* C31: a step in which parse_and_send holds a payload back as a duplicate
\* leaves last_sent_payload (of every window; a window without an entry stays
\* without one), last_global_payload and the last hand-off as they were.
C31_DuplicateLeavesPayloads ==
    [][Suppressed =>
         /\ last_sent_payload' = last_sent_payload
         /\ last_global_payload' = last_global_payload
         /\ handed' = handed
         /\ ev'.hwnd \notin DOMAIN last_sent_payload =>
              ev'.hwnd \notin DOMAIN last_sent_payload']_vars

\* A window that never published resolves to the payload another window
\* published last: it is held back, and the window still has no payload of
\* its own.
C31_Witness ==
    /\ Parsed
    /\ ev.payload # None
    /\ ev.own = None
    /\ ev.payload = ev.glob
    /\ ~ev.sent
    /\ ev.hwnd \notin DOMAIN last_sent_payload
    /\ last_sent_payload # <<>>
    /\ last_global_payload = ev.payload

\* The sweep found a changed title of a tracked window, and the title
\* resolved to a label that is not empty.
ChangedToLabel == ev.op = "changed" /\ ~Falsy(ev.rom) /\ ev.payload # None

\* The claim as stated: after the change, the payload handed over last is
\* the one of the changed title.
C32_Original == ChangedToLabel => handed.payload = ev.payload

\* C32: when the changed title of a tracked window resolves to a label, the
\* payload is the prefix and the label, and the payload handed over last is
\* that payload when it was handed over now or equals the global last
\* payload. When it equals only the window's own last payload, while another
\* payload was handed over since, it is held back, and the payload handed
\* over last stays the other one.
C32_LastHandedAfterChange ==
    ChangedToLabel =>
      /\ ev.payload = Some(CMDCOR_DATA \o ev.rom[1])
      /\ ev.sent => handed.payload = ev.payload
      /\ (~ev.sent /\ ev.glob = ev.payload) => handed.payload = ev.payload
      /\ (~ev.sent /\ ev.glob # ev.payload) =>
           /\ ev.own = ev.payload
           /\ handed = ev.last
           /\ handed.payload = ev.glob

\* A window shows its game again after another window published the menu:
\* the game's payload is held back and the menu's stays the last one handed
\* over.
C32_Witness ==
    /\ ChangedToLabel
    /\ ev.rom = Some("Crash Bandicoot")
    /\ ev.own = ev.payload
    /\ ~ev.sent
    /\ handed.hwnd # ev.hwnd
    /\ handed.payload # ev.payload
    /\ handed.payload = last_global_payload

\* The probe has just connected the watcher to an endpoint.
Detected == dev_ev.op = "detected"

C34_KindFixedAtDiscovery ==
    [][/\ \A h \in Hwnds :
            /\ (h \in DOMAIN hwnd_emulator /\ h \in DOMAIN hwnd_emulator') =>
                 hwnd_emulator'[h] = hwnd_emulator[h]
            /\ (h \notin DOMAIN hwnd_emulator /\ h \in DOMAIN hwnd_emulator') =>
                 /\ ev'.op = "new" /\ ev'.hwnd = h
                 /\ Some(hwnd_emulator'[h]) = Matching(h)
            /\ (h \in DOMAIN hwnd_emulator /\ h \notin DOMAIN hwnd_emulator') =>
                 (ev'.op = "closed" /\ ev'.hwnd = h)
       /\ ev'.op = "changed" =>
            /\ ev'.hwnd \in DOMAIN hwnd_emulator
            /\ ev'.emu = Some(hwnd_emulator[ev'.hwnd])
            /\ ev'.skip = LoadedRomOf[build][hwnd_emulator[ev'.hwnd]][ev'.title].skip
            /\ ~ev'.skip =>
                 ev'.rom = LoadedRomOf[build][hwnd_emulator[ev'.hwnd]][ev'.title].rom]_vars

\* A handle discovered as a MAME window belongs to a DuckStation process
\* now; its changed title is resolved as a MAME title.
C34_Witness ==
    /\ ev.op = "changed"
    /\ ev.emu = Some("mame")
    /\ ev.hwnd \in win_exists
    /\ win_proc[ev.hwnd] = "duckstation-qt-x64-releaseltcg.exe"
    /\ hwnd_emulator[ev.hwnd] = "mame"
    /\ ev.sent

\* The local publisher's call failed before the replace step: open raised
\* (the call stood at "called") or the write did (at "opened").
WriteFailed ==
    /\ sender = "device"
    /\ build = "files_rpi"
    /\ pub.at \in {"called", "opened"}

\* The claim as stated, once the except clause is through: the temporary
\* file is not there.
C35_Original == (WriteFailed /\ pub.pc \in {"done", "idle"}) => tmp = None

\* C35: with the local publisher, when open or the write of the temporary
\* file raises, the channel file stays the whole payload (or the absence)
\* the call found; the except clause leaves the channel file alone and
\* removes the temporary file or, when the removal fails, leaves it as it is;
\* the call then returns as failed to get_game_id, which stores the name
\* and returns to the loop's sleep.
C35_FailedWriteKeepsChannel ==
    /\ [](WriteFailed =>
            /\ sock = pub.before
            /\ WholePayload(sock)
            /\ dpc = "publish" => pub.pc \in {"failed", "done"}
            /\ pub.pc \in {"done", "idle"} => pub.out = "fail"
            /\ dev_ev.op = "returned" =>
                 /\ dpc = "sleep"
                 /\ ~dev_ev.ok
                 /\ last_game_name = dev_ev.game_name)
    /\ [][(WriteFailed /\ pub.pc = "failed" /\ pub'.pc = "done") =>
            /\ sock' = sock
            /\ tmp' = None \/ tmp' = tmp]_vars

\* The write of the temporary file raised while the channel file held an
\* earlier payload; the temporary file was removed and the call returned.
C35_Witness ==
    /\ WriteFailed
    /\ pub.at = "opened"
    /\ dev_ev.op = "returned"
    /\ tmp = None
    /\ sock # None
    /\ sock = pub.before
    /\ sock # Some(pub.data)
    /\ dpc = "sleep"

====
